---- MODULE Spec2Model ----
(***************************************************************************)
(* The confidential route-optimization ledger: the two contracts named     *)
(* LogisticsRouteOptimizer of the repository,                              *)
(*   "main"    src/contracts/LogisticsRouteOptimizer.sol                   *)
(*   "example" src/examples/logistics-optimizer/contracts/                 *)
(*             LogisticsRouteOptimizer.sol                                 *)
(* Either one may be the deployed contract; Init chooses.  Every external  *)
(* function is an operator from the storage at call entry to a frame (the  *)
(* storage, the error, the return value and the events of the call), and   *)
(* one action applies it as one atomic transaction.                        *)
(***************************************************************************)
EXTENDS Integers, Sequences, FiniteSets, TLC

VARIABLES
    contract,        \* which of the two contracts is deployed
    owner,           \* address public owner
    paused,          \* bool public paused              (example only)
    pausers,         \* mapping(address => bool) pausers (example only)
    routeCounter,    \* uint32 public routeCounter
    routeRequests,   \* mapping(uint32 => RouteRequest)
    routeLocations,  \* mapping(uint32 => mapping(uint8 => DeliveryLocation))
    optimizedRoutes, \* mapping(uint32 => OptimizedRoute)
    userRoutes,      \* mapping(address => uint32[])
    acl,             \* the grants recorded by FHE.allowThis / FHE.allow
    emitted,         \* the ledger's log: how often each route event was emitted
    blockTime,       \* block.timestamp of the block being built
    mode,            \* "single": one run; "paired": a second run beside it
    twin             \* the second run's storage: same calls, other plaintexts

vars == <<contract, owner, paused, pausers, routeCounter, routeRequests,
          routeLocations, optimizedRoutes, userRoutes, acl, emitted,
          blockTime, mode, twin>>

(***************************************************************************)
(* Bounds of the model.                                                    *)
(***************************************************************************)
NumUsers == 2
MaxRoutes == 2
\* the routes of a paired run
MaxPairedRoutes == 1
MaxTime == 1
\* the log counts the emissions of one event up to MaxEmitted
MaxEmitted == 2
\* euint32 arithmetic wraps modulo 2^32; the model wraps modulo Uint32Mod
Uint32Mod == 8

(***************************************************************************)
(* Program constants.                                                      *)
(***************************************************************************)
NullAddress == 0
Deployer == 1
MaxUint8 == 255
Uint8Mod == 256
ExampleLocationCount == 3
MainEstimatedTime == 100
ExampleEstimatedTime == 30

Users == 1..NumUsers
Addresses == {NullAddress} \cup Users
\* the grantee FHE.allowThis records: the contract itself
This == NumUsers + 1

NoError == "ok"
NoReturn == <<>>

(***************************************************************************)
(* Ciphertexts.  A euintN is a handle; the value under it lives with the    *)
(* homomorphic engine.  The model keeps both: h names the handle (one per  *)
(* engine result), v is the plaintext under it, which no contract code     *)
(* reads.  The zero handle is the uninitialised euint.                     *)
(***************************************************************************)
NoCipher == [h |-> <<>>, v |-> 0]

FHE_asEuint32(tag, plain) == [h |-> tag, v |-> plain % Uint32Mod]

FHE_asEuint8(tag, plain) == [h |-> tag, v |-> plain % Uint8Mod]

FHE_asEuint64(tag, c) == [h |-> tag, v |-> c.v]

FHE_add(tag, a, b) == [h |-> tag, v |-> (a.v + b.v) % Uint32Mod]

FHE_sub(tag, a, b) == [h |-> tag, v |-> (a.v - b.v) % Uint32Mod]

FHE_mul64(tag, a, b) == [h |-> tag, v |-> (a.v * b.v) % (Uint32Mod * Uint32Mod)]

FHE_allowThis(st, c) == [st EXCEPT !.acl = @ \cup {<<c.h, This>>}]

\* a grant that goes to the owner whoever it is asked for
FHE_allowOwner(st, c, who) == [st EXCEPT !.acl = @ \cup {<<c.h, st.owner>>}]

FHE_allow(st, c, who) == [st EXCEPT !.acl = @ \cup {<<c.h, who>>}]

(***************************************************************************)
(* Storage.  A Solidity mapping reads as zero where nothing was written:   *)
(* the model keeps the written entries and reads the rest as the zero      *)
(* value of the struct.                                                    *)
(***************************************************************************)
ZeroRequest ==
    [requester |-> NullAddress, locationCount |-> 0,
     maxTravelDistance |-> NoCipher, vehicleCapacity |-> NoCipher,
     processed |-> FALSE, optimizedRouteId |-> 0, timestamp |-> 0]

ZeroLocation ==
    [encryptedX |-> NoCipher, encryptedY |-> NoCipher, priority |-> NoCipher,
     isActive |-> FALSE]

ZeroRoute ==
    [routeId |-> 0, requester |-> NullAddress, totalDistance |-> NoCipher,
     totalDistanceSquared |-> NoCipher, estimatedTime |-> NoCipher,
     isConfidential |-> FALSE, createdAt |-> 0, locationOrder |-> <<>>,
     finalized |-> FALSE]

Request(st, routeId) ==
    IF routeId \in DOMAIN st.routeRequests THEN st.routeRequests[routeId]
    ELSE ZeroRequest

Location(st, routeId, i) ==
    IF <<routeId, i>> \in DOMAIN st.routeLocations
    THEN st.routeLocations[<<routeId, i>>]
    ELSE ZeroLocation

Route(st, routeId) ==
    IF routeId \in DOMAIN st.optimizedRoutes THEN st.optimizedRoutes[routeId]
    ELSE ZeroRoute

RoutesOf(st, user) ==
    IF user \in DOMAIN st.userRoutes THEN st.userRoutes[user] ELSE <<>>

\* a write that keeps no other entry of the mapping
PutAlone(map, key, value) == [k \in {key} |-> value]

Put(map, key, value) == [k \in DOMAIN map \cup {key} |->
                            IF k = key THEN value ELSE map[k]]

EmptyMap == [k \in {} |-> 0]

(***************************************************************************)
(* A call's frame: the storage as the call has written it so far, the      *)
(* storage at call entry, and the outcome.  revert (a failed require, a    *)
(* custom error, an arithmetic panic) ends the call, restores the storage  *)
(* of call entry and drops the events.                                     *)
(***************************************************************************)
Enter(st) == [st |-> st, pre |-> st, err |-> NoError, ret |-> NoReturn, ev |-> <<>>]

\* a failure that reports the error and keeps what the call has written
RevertKeepingWrites(f, e) == [f EXCEPT !.err = e]

Revert(f, e) ==
    [st |-> f.pre, pre |-> f.pre, err |-> e, ret |-> NoReturn, ev |-> <<>>]

Emit(f, event) == [f EXCEPT !.ev = Append(@, event)]

Return(f, value) == [f EXCEPT !.ret = value]

Store(f, st) == [f EXCEPT !.st = st]

(***************************************************************************)
(* Statements the two contracts share word for word.                       *)
(***************************************************************************)
\* a counter that is read and not advanced
SameCounter(counter) == counter

\* a counter that skips an id
IncrementedByTwo(counter) == counter + 2

\* ++routeCounter (checked uint32 arithmetic; the model's counters stay far
\* below 2^32)
Incremented(counter) == counter + 1

\* a request whose processed flag is left as it was
LeftUnprocessed(request, routeId) == request

\* a request marked processed without its back-reference
ProcessedWithoutBackReference(request, routeId) == [request EXCEPT !.processed = TRUE]

\* request.processed = true; request.optimizedRouteId = routeId;
MarkProcessed(request, routeId) ==
    [request EXCEPT !.processed = TRUE, !.optimizedRouteId = routeId]

\* a check that takes every route id as submitted
AlwaysSubmitted(request) == FALSE

\* request.requester == address(0): no request was stored under the id
NeverSubmitted(request) == request.requester = NullAddress

\* a route whose finalized flag is flipped
FinalizedToggled(route) == [route EXCEPT !.finalized = ~@]

\* optimizedRoutes[routeId].finalized = true;
Finalized(route) == [route EXCEPT !.finalized = TRUE]

\* a check that takes every route as processed
AnyRouteProcessed(st, routeId) == TRUE

\* routeRequests[routeId].processed, as markDeliveryCompleted and the two
\* result getters require it
RouteProcessed(st, routeId) == Request(st, routeId).processed

\* a route id put at the front of the list
PushedFirst(list, routeId) == <<routeId>> \o list

\* userRoutes[msg.sender].push(routeId);
Pushed(list, routeId) == Append(list, routeId)

\* a location left active
StillActive(location) == location

\* routeLocations[routeId][locationIndex].isActive = false;
Deactivated(location) == [location EXCEPT !.isActive = FALSE]

(***************************************************************************)
(* The main contract, src/contracts/LogisticsRouteOptimizer.sol.  Its      *)
(* failures are require(..., "reason") reverts.                            *)
(***************************************************************************)

\* an owner check that lets every caller through
AnyoneIsOwner(st, sender) == TRUE

\* modifier onlyOwner
Main_onlyOwner(st, sender) == sender = st.owner

\* a requester check that lets every caller through
AnyoneIsRequester(st, sender, routeId) == TRUE

\* modifier onlyRequester(routeId)
Main_onlyRequester(st, sender, routeId) == sender = Request(st, routeId).requester

\* the three checks with the emptiness check moved to the front
Main_requireArraysEmptinessFirst(xCoords, yCoords, priorities) ==
    IF ~(Len(xCoords) > 0) THEN "Must have at least one location"
    ELSE IF Len(xCoords) # Len(yCoords) THEN "Coordinate arrays must match"
    ELSE IF Len(xCoords) # Len(priorities) THEN "Priority array must match"
    ELSE NoError

\* the three require statements that open requestRouteOptimization: the
\* message of the first that fails
Main_requireArrays(xCoords, yCoords, priorities) ==
    IF Len(xCoords) # Len(yCoords) THEN "Coordinate arrays must match"
    ELSE IF Len(xCoords) # Len(priorities) THEN "Priority array must match"
    ELSE IF ~(Len(xCoords) > 0) THEN "Must have at least one location"
    ELSE NoError

\* an overflow that goes unnoticed: the call carries on
PanicIgnored(f) == f

\* checked arithmetic: an overflow or underflow ends the call with
\* Panic(0x11) and reverts it
Panic(f) == Revert(f, "Panic(0x11)")

\* The loop of requestRouteOptimization: for (uint8 i = 0; i < xCoords.length; i++),
\* entered with i < xCoords.length <= 255 (see Main_requestRouteOptimization).
RECURSIVE Main_storeLocations(_, _, _, _, _, _, _)
Main_storeLocations(f, routeId, sender, xCoords, yCoords, priorities, i) ==
    IF ~(i < Len(xCoords)) THEN f
    ELSE
        LET encX == FHE_asEuint32(<<"encryptedX", routeId, i>>, xCoords[i + 1])
            encY == FHE_asEuint32(<<"encryptedY", routeId, i>>, yCoords[i + 1])
            encPriority == FHE_asEuint8(<<"priority", routeId, i>>, priorities[i + 1])
            location == [encryptedX |-> encX, encryptedY |-> encY,
                         priority |-> encPriority, isActive |-> TRUE]
            st1 == [f.st EXCEPT !.routeLocations = Put(@, <<routeId, i>>, location)]
            st2 == FHE_allowThis(FHE_allowThis(FHE_allowThis(st1, encX), encY), encPriority)
            st3 == FHE_allow(FHE_allow(FHE_allow(st2, encX, sender), encY, sender),
                             encPriority, sender)
        IN  Main_storeLocations(Store(f, st3), routeId, sender,
                                xCoords, yCoords, priorities, i + 1)

Main_requestRouteOptimization(st, sender, xCoords, yCoords, priorities, maxDistance, vehicleCapacity, now) ==
    LET f0 == Enter(st) IN
    IF Main_requireArrays(xCoords, yCoords, priorities) # NoError
    THEN Revert(f0, Main_requireArrays(xCoords, yCoords, priorities))
    ELSE
        LET routeId == Incremented(st.routeCounter)
            encMaxDistance == FHE_asEuint32(<<"maxTravelDistance", routeId>>, maxDistance)
            encCapacity == FHE_asEuint8(<<"vehicleCapacity", routeId>>, vehicleCapacity)
            request == [requester |-> sender,
                        locationCount |-> Len(xCoords),
                        maxTravelDistance |-> encMaxDistance,
                        vehicleCapacity |-> encCapacity,
                        processed |-> FALSE,
                        optimizedRouteId |-> 0,
                        timestamp |-> now]
            st1 == [st EXCEPT !.routeCounter = routeId,
                              !.routeRequests = Put(@, routeId, request)]
            \* i++ is checked uint8 arithmetic: with more than 255 locations
            \* the loop's 256th increment panics, and the revert drops what
            \* the iterations before it wrote
            f1 == IF Len(xCoords) > MaxUint8
                  THEN Panic(Store(f0, st1))
                  ELSE Main_storeLocations(Store(f0, st1), routeId, sender,
                                           xCoords, yCoords, priorities, 0)
        IN  IF f1.err # NoError THEN f1
            ELSE
                LET st2 == FHE_allowThis(FHE_allowThis(f1.st, encMaxDistance), encCapacity)
                    st3 == FHE_allow(FHE_allow(st2, encMaxDistance, sender), encCapacity, sender)
                    st4 == [st3 EXCEPT !.userRoutes =
                                Put(@, sender, Pushed(RoutesOf(st3, sender), routeId))]
                IN  Return(Emit(Store(f1, st4),
                                <<"RouteRequested", routeId, sender, Len(xCoords)>>),
                           <<routeId>>)

\* _calculateDistance: two subtractions and one addition, all on ciphertexts
Main_calculateDistance(st, routeId, from, to) ==
    LET loc1 == Location(st, routeId, from)
        loc2 == Location(st, routeId, to)
        deltaX == FHE_sub(<<"deltaX", routeId, from>>, loc2.encryptedX, loc1.encryptedX)
        deltaY == FHE_sub(<<"deltaY", routeId, from>>, loc2.encryptedY, loc1.encryptedY)
    IN  FHE_add(<<"distance", routeId, from>>, deltaX, deltaY)

\* the loop of _calculateOptimalRoute: for (uint8 i = 0; i < locationCount - 1; i++)
RECURSIVE Main_accumulateDistance(_, _, _, _)
Main_accumulateDistance(st, routeId, totalDistance, i) ==
    IF ~(i < Request(st, routeId).locationCount - 1) THEN totalDistance
    ELSE Main_accumulateDistance(st, routeId,
            FHE_add(<<"totalDistance", routeId>>, totalDistance,
                    Main_calculateDistance(st, routeId, i, i + 1)),
            i + 1)

Main_calculateOptimalRoute(st, routeId) ==
    Main_accumulateDistance(st, routeId, FHE_asEuint32(<<"totalDistance", routeId>>, 0), 0)

\* _calculateDeliveryTime: the loading time is computed and dropped; the
\* result is the constant 100
Main_calculateDeliveryTime(st, routeId, totalDistance) ==
    FHE_asEuint8(<<"estimatedTime", routeId>>, MainEstimatedTime)

\* the loop of _generateRouteOrder: order[i] = i
RECURSIVE Main_fillRouteOrder(_, _, _)
Main_fillRouteOrder(order, locationCount, i) ==
    IF ~(i < locationCount) THEN order
    ELSE Main_fillRouteOrder(Append(order, i), locationCount, i + 1)

\* an order that counts from 1
Main_generateRouteOrderFromOne(locationCount) ==
    Main_fillRouteOrder(<<>>, locationCount + 1, 1)

Main_generateRouteOrder(locationCount) == Main_fillRouteOrder(<<>>, locationCount, 0)

\* the event with the distance under the ciphertext in its last field
Main_routeOptimizedWithDistance(routeId, requester, totalDistance) ==
    <<"RouteOptimized", routeId, requester, totalDistance.v>>

\* emit RouteOptimized(routeId, request.requester, 0): the last field, named
\* totalDistance, is the constant 0 and not the distance computed
Main_routeOptimized(routeId, requester, totalDistance) ==
    <<"RouteOptimized", routeId, requester, 0>>

Main_processRouteOptimization(st, sender, routeId, now) ==
    LET f0 == Enter(st)
        request == Request(st, routeId)
    IN
    IF ~Main_onlyOwner(st, sender) THEN Revert(f0, "Not authorized")
    ELSE IF request.processed THEN Revert(f0, "Route already processed")
    ELSE IF NeverSubmitted(request) THEN Revert(f0, "Invalid route")
    ELSE IF request.locationCount - 1 < 0 \/ request.locationCount > MaxUint8
         THEN Panic(f0)
    ELSE
        LET totalDistance == Main_calculateOptimalRoute(st, routeId)
            estimatedTime == Main_calculateDeliveryTime(st, routeId, totalDistance)
            routeOrder == Main_generateRouteOrder(request.locationCount)
            route == [routeId |-> routeId,
                      requester |-> request.requester,
                      totalDistance |-> totalDistance,
                      totalDistanceSquared |-> NoCipher,
                      estimatedTime |-> estimatedTime,
                      isConfidential |-> TRUE,
                      createdAt |-> now,
                      locationOrder |-> routeOrder,
                      finalized |-> FALSE]
            st1 == [st EXCEPT !.optimizedRoutes = Put(@, routeId, route)]
            st2 == FHE_allowThis(FHE_allowThis(st1, totalDistance), estimatedTime)
            st3 == FHE_allow(FHE_allow(st2, totalDistance, request.requester),
                             estimatedTime, request.requester)
            st4 == [st3 EXCEPT !.routeRequests =
                        Put(@, routeId, MarkProcessed(request, routeId))]
        IN  Emit(Store(f0, st4),
                 Main_routeOptimized(routeId, request.requester, totalDistance))

Main_getOptimizedRoute(st, sender, routeId) ==
    LET f0 == Enter(st)
        route == Route(st, routeId)
    IN
    IF ~Main_onlyRequester(st, sender, routeId) THEN Revert(f0, "Not your route")
    ELSE IF ~RouteProcessed(st, routeId) THEN Revert(f0, "Route not processed yet")
    ELSE Return(f0, <<route.totalDistance.h, route.estimatedTime.h,
                      route.locationOrder, route.createdAt>>)

Main_markDeliveryCompleted(st, sender, routeId, locationIndex) ==
    LET f0 == Enter(st) IN
    IF ~Main_onlyRequester(st, sender, routeId) THEN Revert(f0, "Not your route")
    ELSE IF ~RouteProcessed(st, routeId) THEN Revert(f0, "Route not processed")
    ELSE IF ~(locationIndex < Request(st, routeId).locationCount)
         THEN Revert(f0, "Invalid location index")
    ELSE IF ~Location(st, routeId, locationIndex).isActive
         THEN Revert(f0, "Location already completed")
    ELSE
        LET st1 == [st EXCEPT !.routeLocations = Put(@, <<routeId, locationIndex>>,
                        Deactivated(Location(st, routeId, locationIndex)))]
        IN  Emit(Store(f0, st1), <<"DeliveryCompleted", routeId, locationIndex>>)

Main_getUserRoutes(st, user) == Return(Enter(st), RoutesOf(st, user))

Main_getRouteRequest(st, routeId) ==
    LET request == Request(st, routeId)
    IN  Return(Enter(st), <<request.requester, request.locationCount,
                            request.processed, request.timestamp>>)

Main_getRouteDataForOwner(st, sender, routeId) ==
    LET f0 == Enter(st)
        route == Route(st, routeId)
    IN
    IF ~Main_onlyOwner(st, sender) THEN Revert(f0, "Not authorized")
    ELSE IF ~RouteProcessed(st, routeId) THEN Revert(f0, "Route not processed")
    ELSE Return(f0, <<route.totalDistance.h, route.estimatedTime.h,
                      route.requester, route.createdAt>>)

(***************************************************************************)
(* The example contract,                                                   *)
(* src/examples/logistics-optimizer/contracts/LogisticsRouteOptimizer.sol. *)
(* Its failures are custom errors.  Modifiers run in the order written.    *)
(***************************************************************************)

\* modifier onlyOwner
Example_onlyOwner(st, sender) == sender = st.owner

\* modifier onlyRequester(routeId)
Example_onlyRequester(st, sender, routeId) == Request(st, routeId).requester = sender

\* a pause check that never stops a call
NeverPaused(st) == TRUE

\* modifier whenNotPaused
Example_whenNotPaused(st) == ~st.paused

\* a pauser check that looks at the pauser set alone
InPauserSet(st, sender) == sender \in st.pausers

\* a pauser check that lets every caller through
AnyoneIsPauser(st, sender) == TRUE

\* modifier onlyPauser
Example_onlyPauser(st, sender) == sender \in st.pausers \/ sender = st.owner

\* requestRouteOptimization(xCoord, yCoord, priority, maxDistance, capacity):
\* one coordinate pair, which is not stored; locationCount is the constant 3
\* and no DeliveryLocation is written.
Example_requestRouteOptimization(st, sender, xCoord, yCoord, priority, maxDistance, vehicleCapacityValue, now) ==
    LET f0 == Enter(st) IN
    IF ~Example_whenNotPaused(st) THEN Revert(f0, "ContractPaused")
    ELSE
        LET routeId == Incremented(st.routeCounter)
            encMaxDistance == FHE_asEuint32(<<"maxTravelDistance", routeId>>, maxDistance)
            encVehicleCapacity == FHE_asEuint8(<<"vehicleCapacity", routeId>>, vehicleCapacityValue)
            request == [requester |-> sender,
                        locationCount |-> ExampleLocationCount,
                        maxTravelDistance |-> encMaxDistance,
                        vehicleCapacity |-> encVehicleCapacity,
                        processed |-> FALSE,
                        optimizedRouteId |-> 0,
                        timestamp |-> now]
            st1 == [st EXCEPT !.routeCounter = routeId,
                              !.routeRequests = Put(@, routeId, request)]
            st2 == [st1 EXCEPT !.userRoutes =
                        Put(@, sender, Pushed(RoutesOf(st1, sender), routeId))]
        IN  Return(Emit(Store(f0, st2),
                        <<"RouteRequested", routeId, sender, ExampleLocationCount, now>>),
                   <<routeId>>)

\* _calculateOptimalRoute returns the request's maxTravelDistance handle
Example_calculateOptimalRoute(st, routeId) == Request(st, routeId).maxTravelDistance

\* for (uint8 i = 0; i < request.locationCount; i++) routeOrder[i] = i
RECURSIVE Example_fillRouteOrder(_, _, _)
Example_fillRouteOrder(order, locationCount, i) ==
    IF ~(i < locationCount) THEN order
    ELSE Example_fillRouteOrder(Append(order, i), locationCount, i + 1)

Example_processRouteOptimization(st, sender, routeId, now) ==
    LET f0 == Enter(st)
        request == Request(st, routeId)
    IN
    IF ~Example_onlyOwner(st, sender) THEN Revert(f0, "NotAuthorized")
    ELSE IF ~Example_whenNotPaused(st) THEN Revert(f0, "ContractPaused")
    ELSE IF request.processed THEN Revert(f0, "RouteAlreadyProcessed")
    ELSE IF NeverSubmitted(request) THEN Revert(f0, "InvalidRoute")
    ELSE
        LET totalDistance == Example_calculateOptimalRoute(st, routeId)
            totalDistanceSquared ==
                FHE_mul64(<<"totalDistanceSquared", routeId>>,
                          FHE_asEuint64(<<"totalDistance64", routeId>>, totalDistance),
                          FHE_asEuint64(<<"totalDistance64", routeId>>, totalDistance))
            estimatedTime == FHE_asEuint8(<<"estimatedTime", routeId>>, ExampleEstimatedTime)
            routeOrder == Example_fillRouteOrder(<<>>, request.locationCount, 0)
            route == [routeId |-> routeId,
                      requester |-> request.requester,
                      totalDistance |-> totalDistance,
                      totalDistanceSquared |-> totalDistanceSquared,
                      estimatedTime |-> estimatedTime,
                      isConfidential |-> TRUE,
                      createdAt |-> now,
                      locationOrder |-> routeOrder,
                      finalized |-> FALSE]
            st1 == [st EXCEPT !.optimizedRoutes = Put(@, routeId, route)]
            st2 == [st1 EXCEPT !.routeRequests =
                        Put(@, routeId, MarkProcessed(request, routeId))]
        IN  Emit(Store(f0, st2), <<"RouteOptimized", routeId, request.requester, now>>)

\* the event with the plaintexts under the route's ciphertexts in the fields
\* named for them
Example_routeFinalizedDecrypted(routeId, route) ==
    <<"RouteFinalized", routeId, route.totalDistance.v, route.estimatedTime.v>>

\* emit RouteFinalized(routeId, 0, 0): decryptedDistance and decryptedTime
\* are the constant 0
Example_routeFinalized(routeId, route) == <<"RouteFinalized", routeId, 0, 0>>

Example_finalizeRoute(st, sender, routeId) ==
    LET f0 == Enter(st) IN
    IF ~Example_onlyOwner(st, sender) THEN Revert(f0, "NotAuthorized")
    ELSE IF ~Example_whenNotPaused(st) THEN Revert(f0, "ContractPaused")
    ELSE IF ~Request(st, routeId).processed THEN Revert(f0, "RouteNotProcessed")
    ELSE
        LET st1 == [st EXCEPT !.optimizedRoutes = Put(@, routeId,
                        Finalized(Route(st, routeId)))]
        IN  Emit(Store(f0, st1), Example_routeFinalized(routeId, Route(st, routeId)))

\* markDeliveryCompleted with the pause check ahead of the requester check
Example_markDeliveryCompletedPauseFirst(st, sender, routeId, locationIndex, now) ==
    LET f0 == Enter(st) IN
    IF ~Example_whenNotPaused(st) THEN Revert(f0, "ContractPaused")
    ELSE IF ~Example_onlyRequester(st, sender, routeId) THEN Revert(f0, "NotYourRoute")
    ELSE IF ~RouteProcessed(st, routeId) THEN Revert(f0, "RouteNotProcessed")
    ELSE IF locationIndex >= Request(st, routeId).locationCount
         THEN Revert(f0, "InvalidLocationIndex")
    ELSE IF ~Location(st, routeId, locationIndex).isActive
         THEN Revert(f0, "LocationAlreadyCompleted")
    ELSE
        LET st1 == [st EXCEPT !.routeLocations = Put(@, <<routeId, locationIndex>>,
                        Deactivated(Location(st, routeId, locationIndex)))]
        IN  Emit(Store(f0, st1), <<"DeliveryCompleted", routeId, locationIndex, now>>)

Example_markDeliveryCompleted(st, sender, routeId, locationIndex, now) ==
    LET f0 == Enter(st) IN
    IF ~Example_onlyRequester(st, sender, routeId) THEN Revert(f0, "NotYourRoute")
    ELSE IF ~Example_whenNotPaused(st) THEN Revert(f0, "ContractPaused")
    ELSE IF ~RouteProcessed(st, routeId) THEN Revert(f0, "RouteNotProcessed")
    ELSE IF locationIndex >= Request(st, routeId).locationCount
         THEN Revert(f0, "InvalidLocationIndex")
    ELSE IF ~Location(st, routeId, locationIndex).isActive
         THEN Revert(f0, "LocationAlreadyCompleted")
    ELSE
        LET st1 == [st EXCEPT !.routeLocations = Put(@, <<routeId, locationIndex>>,
                        Deactivated(Location(st, routeId, locationIndex)))]
        IN  Emit(Store(f0, st1), <<"DeliveryCompleted", routeId, locationIndex, now>>)

Example_getUserRoutes(st, user) == Return(Enter(st), RoutesOf(st, user))

Example_getRouteRequest(st, routeId) ==
    LET request == Request(st, routeId)
    IN  Return(Enter(st), <<request.requester, request.locationCount,
                            request.processed, request.timestamp>>)

\* a pauser set left as it was
SamePausers(set, pauser) == set

\* pausers[_pauser] = true;
WithPauser(set, pauser) == set \cup {pauser}

\* pausers[_pauser] = false;
WithoutPauser(set, pauser) == set \ {pauser}

Example_addPauser(st, sender, pauser) ==
    LET f0 == Enter(st) IN
    IF ~Example_onlyOwner(st, sender) THEN Revert(f0, "NotAuthorized")
    ELSE IF pauser = NullAddress THEN Revert(f0, "InvalidAddress")
    ELSE IF pauser \in st.pausers THEN Revert(f0, "AlreadyPauser")
    ELSE Emit(Store(f0, [st EXCEPT !.pausers = WithPauser(@, pauser)]),
              <<"PauserAdded", pauser>>)

Example_removePauser(st, sender, pauser) ==
    LET f0 == Enter(st) IN
    IF ~Example_onlyOwner(st, sender) THEN Revert(f0, "NotAuthorized")
    ELSE IF pauser \notin st.pausers THEN Revert(f0, "NotPauser")
    ELSE Emit(Store(f0, [st EXCEPT !.pausers = WithoutPauser(@, pauser)]),
              <<"PauserRemoved", pauser>>)

\* a flag that is set whatever it was
AlwaysSet(flag) == TRUE

\* paused = !paused;
Toggled(flag) == ~flag

\* emit ContractPausedToggled(paused) reads the flag after the assignment
Example_togglePause(st, sender) ==
    LET f0 == Enter(st) IN
    IF ~Example_onlyPauser(st, sender) THEN Revert(f0, "NotPauser")
    ELSE Emit(Store(f0, [st EXCEPT !.paused = Toggled(st.paused)]),
              <<"ContractPausedToggled", Toggled(st.paused)>>)

\* an owner that stays who it was
KeptOwner(previousOwner, newOwner) == previousOwner

\* owner = newOwner;
NewOwner(previousOwner, newOwner) == newOwner

\* a transfer that hands the pauser role over with the ownership
Example_transferOwnershipWithPauserRole(st, sender, newOwner) ==
    LET f0 == Enter(st) IN
    IF ~Example_onlyOwner(st, sender) THEN Revert(f0, "NotAuthorized")
    ELSE IF newOwner = NullAddress THEN Revert(f0, "InvalidAddress")
    ELSE Emit(Store(f0, [st EXCEPT !.owner = newOwner,
                                   !.pausers = (@ \ {st.owner}) \cup {newOwner}]),
              <<"OwnershipTransferred", st.owner, newOwner>>)

Example_transferOwnership(st, sender, newOwner) ==
    LET f0 == Enter(st) IN
    IF ~Example_onlyOwner(st, sender) THEN Revert(f0, "NotAuthorized")
    ELSE IF newOwner = NullAddress THEN Revert(f0, "InvalidAddress")
    ELSE Emit(Store(f0, [st EXCEPT !.owner = NewOwner(@, newOwner)]),
              <<"OwnershipTransferred", st.owner, newOwner>>)

(***************************************************************************)
(* The failure a caller sees.  The example contract declares its errors    *)
(* (NotAuthorized() ... InvalidAddress()); the main contract fails with    *)
(* require messages.  ErrorName reads either as the declared error.        *)
(***************************************************************************)
ErrorName(err) ==
    CASE err = "Not authorized" -> "NotAuthorized"
      [] err = "Not your route" -> "NotYourRoute"
      [] err = "Coordinate arrays must match" -> "CoordinateArraysMismatch"
      [] err = "Priority array must match" -> "PriorityArrayMismatch"
      [] err = "Must have at least one location" -> "NoLocationsProvided"
      [] err = "Route already processed" -> "RouteAlreadyProcessed"
      [] err = "Invalid route" -> "InvalidRoute"
      [] err = "Route not processed yet" -> "RouteNotProcessed"
      [] err = "Route not processed" -> "RouteNotProcessed"
      [] err = "Invalid location index" -> "InvalidLocationIndex"
      [] err = "Location already completed" -> "LocationAlreadyCompleted"
      [] OTHER -> err

(***************************************************************************)
(* Deployment.                                                             *)
(***************************************************************************)
EmptyStorage ==
    [owner |-> NullAddress, paused |-> FALSE, pausers |-> {}, routeCounter |-> 0,
     routeRequests |-> EmptyMap, routeLocations |-> EmptyMap,
     optimizedRoutes |-> EmptyMap, userRoutes |-> EmptyMap, acl |-> {}]

Main_constructor(sender) ==
    Store(Enter(EmptyStorage), [EmptyStorage EXCEPT !.owner = sender, !.routeCounter = 0])

\* a deployment that leaves the pauser set empty
Example_constructorWithoutPauser(sender) ==
    Store(Enter(EmptyStorage), [EmptyStorage EXCEPT !.owner = sender])

Example_constructor(sender) ==
    Emit(Store(Enter(EmptyStorage),
               [EmptyStorage EXCEPT !.owner = sender, !.routeCounter = 0,
                                    !.paused = FALSE, !.pausers = {sender}]),
         <<"PauserAdded", sender>>)

Deploy(which, sender) ==
    IF which = "main" THEN Main_constructor(sender) ELSE Example_constructor(sender)

(***************************************************************************)
(* Calls.  A call names the entry point, the sender and the arguments; the *)
(* contract's dispatcher runs the function it names.                       *)
(***************************************************************************)
NoCall ==
    [op |-> "none", sender |-> NullAddress, routeId |-> 0, locationIndex |-> 0,
     account |-> NullAddress, xCoords |-> <<>>, yCoords |-> <<>>, priorities |-> <<>>,
     xCoord |-> 0, yCoord |-> 0, priority |-> 0, maxDistance |-> 0, capacity |-> 0]

Main_call(st, c, now) ==
    CASE c.op = "requestRouteOptimization" ->
            Main_requestRouteOptimization(st, c.sender, c.xCoords, c.yCoords,
                c.priorities, c.maxDistance, c.capacity, now)
      [] c.op = "processRouteOptimization" ->
            Main_processRouteOptimization(st, c.sender, c.routeId, now)
      [] c.op = "getOptimizedRoute" -> Main_getOptimizedRoute(st, c.sender, c.routeId)
      [] c.op = "markDeliveryCompleted" ->
            Main_markDeliveryCompleted(st, c.sender, c.routeId, c.locationIndex)
      [] c.op = "getUserRoutes" -> Main_getUserRoutes(st, c.account)
      [] c.op = "getRouteRequest" -> Main_getRouteRequest(st, c.routeId)
      [] c.op = "getRouteDataForOwner" ->
            Main_getRouteDataForOwner(st, c.sender, c.routeId)
      \* no such function in this contract: the call reverts
      [] OTHER -> Revert(Enter(st), "NoSuchFunction")

Example_call(st, c, now) ==
    CASE c.op = "requestRouteOptimization" ->
            Example_requestRouteOptimization(st, c.sender, c.xCoord, c.yCoord,
                c.priority, c.maxDistance, c.capacity, now)
      [] c.op = "processRouteOptimization" ->
            Example_processRouteOptimization(st, c.sender, c.routeId, now)
      [] c.op = "finalizeRoute" -> Example_finalizeRoute(st, c.sender, c.routeId)
      [] c.op = "markDeliveryCompleted" ->
            Example_markDeliveryCompleted(st, c.sender, c.routeId, c.locationIndex, now)
      [] c.op = "getUserRoutes" -> Example_getUserRoutes(st, c.account)
      [] c.op = "getRouteRequest" -> Example_getRouteRequest(st, c.routeId)
      [] c.op = "addPauser" -> Example_addPauser(st, c.sender, c.account)
      [] c.op = "removePauser" -> Example_removePauser(st, c.sender, c.account)
      [] c.op = "togglePause" -> Example_togglePause(st, c.sender)
      [] c.op = "transferOwnership" -> Example_transferOwnership(st, c.sender, c.account)
      \* no such function in this contract: the call reverts
      [] OTHER -> Revert(Enter(st), "NoSuchFunction")

Invoke(which, st, c, now) ==
    IF which = "main" THEN Main_call(st, c, now) ELSE Example_call(st, c, now)

(***************************************************************************)
(* The inputs the callers choose from.                                     *)
(***************************************************************************)
\* an array one longer than a uint8 can count
Overlong == [k \in 1..(MaxUint8 + 1) |-> 0]

XCoordSamples == {<<>>, <<1>>, <<2, 0>>}
YCoordSamples == {<<>>, <<3>>, <<0, 1>>}
PrioritySamples == {<<>>, <<1>>, <<1, 2>>}
MaxDistanceSamples == {5}
CapacitySamples == {2}
ScalarSamples == {1}
RouteIdSamples == 0..MaxRoutes
IndexSamples == {0, 1, 2, 3}

\* the arrays of one request: short ones of every mix of lengths, and three
\* overlong ones together
ArraySamples ==
    (XCoordSamples \X YCoordSamples \X PrioritySamples)
        \cup {<<Overlong, Overlong, Overlong>>}

MainRequestCalls ==
    {[NoCall EXCEPT !.op = "requestRouteOptimization", !.sender = s,
                    !.xCoords = a[1], !.yCoords = a[2], !.priorities = a[3],
                    !.maxDistance = d, !.capacity = v] :
        s \in Users, a \in ArraySamples,
        d \in MaxDistanceSamples, v \in CapacitySamples}

ExampleRequestCalls ==
    {[NoCall EXCEPT !.op = "requestRouteOptimization", !.sender = s,
                    !.xCoord = x, !.yCoord = y, !.priority = p,
                    !.maxDistance = d, !.capacity = v] :
        s \in Users, x \in ScalarSamples, y \in ScalarSamples,
        p \in ScalarSamples, d \in MaxDistanceSamples, v \in CapacitySamples}

RouteCalls(op) ==
    {[NoCall EXCEPT !.op = op, !.sender = s, !.routeId = r] :
        s \in Users, r \in RouteIdSamples}

LocationCalls(op) ==
    {[NoCall EXCEPT !.op = op, !.sender = s, !.routeId = r, !.locationIndex = i] :
        s \in Users, r \in RouteIdSamples, i \in IndexSamples}

AccountCalls(op) ==
    {[NoCall EXCEPT !.op = op, !.sender = s, !.account = a] :
        s \in Users, a \in Addresses}

SenderCalls(op) == {[NoCall EXCEPT !.op = op, !.sender = s] : s \in Users}

MainCalls ==
    MainRequestCalls \cup RouteCalls("processRouteOptimization")
        \cup RouteCalls("getOptimizedRoute") \cup LocationCalls("markDeliveryCompleted")
        \cup AccountCalls("getUserRoutes") \cup RouteCalls("getRouteRequest")
        \cup RouteCalls("getRouteDataForOwner")

ExampleCalls ==
    ExampleRequestCalls \cup RouteCalls("processRouteOptimization")
        \cup RouteCalls("finalizeRoute") \cup LocationCalls("markDeliveryCompleted")
        \cup AccountCalls("getUserRoutes") \cup RouteCalls("getRouteRequest")
        \cup AccountCalls("addPauser") \cup AccountCalls("removePauser")
        \cup SenderCalls("togglePause") \cup AccountCalls("transferOwnership")

\* the calls a client can make to the deployed contract
Calls == IF contract = "main" THEN MainCalls ELSE ExampleCalls

\* The second run's plaintexts: the first run's, or other values of the same
\* shape for the coordinates, the priorities and the constraints.
Variants == {"same", "other"}

VariantsOf(m, c) ==
    IF m = "paired" /\ c.op = "requestRouteOptimization" THEN Variants ELSE {"same"}

OtherArray(a) == [k \in DOMAIN a |-> (a[k] + k * k + 1) % Uint32Mod]

OtherScalar(x) == (x + 2) % Uint32Mod

TwinCall(c, variant) ==
    IF variant = "other"
    THEN [c EXCEPT !.xCoords = OtherArray(@), !.yCoords = OtherArray(@),
                   !.priorities = OtherArray(@),
                   !.xCoord = OtherScalar(@), !.yCoord = OtherScalar(@),
                   !.priority = OtherScalar(@),
                   !.maxDistance = OtherScalar(@), !.capacity = OtherScalar(@)]
    ELSE c

(***************************************************************************)
(* The event log.  Events are never removed from the ledger's log; the     *)
(* model keeps, for the events about a route, how often each was emitted:  *)
(* DeliveryCompleted per route and location, the others per route, the    *)
(* timestamp left out.                                                     *)
(***************************************************************************)
RouteEvents ==
    {"RouteRequested", "RouteOptimized", "RouteFinalized", "DeliveryCompleted"}

EventKey(e) ==
    IF e[1] = "DeliveryCompleted" THEN <<e[1], e[2], e[3]>> ELSE <<e[1], e[2]>>

Count(log, key) == IF key \in DOMAIN log THEN log[key] ELSE 0

RECURSIVE Logged(_, _)
Logged(log, events) ==
    IF events = <<>> THEN log
    ELSE Logged(IF Head(events)[1] \in RouteEvents
                THEN Put(log, EventKey(Head(events)),
                         Count(log, EventKey(Head(events))) + 1)
                ELSE log,
                Tail(events))

(***************************************************************************)
(* State.                                                                  *)
(***************************************************************************)
Storage ==
    [owner |-> owner, paused |-> paused, pausers |-> pausers,
     routeCounter |-> routeCounter, routeRequests |-> routeRequests,
     routeLocations |-> routeLocations, optimizedRoutes |-> optimizedRoutes,
     userRoutes |-> userRoutes, acl |-> acl]

\* the call as made now on the deployed contract
Result(c) == Invoke(contract, Storage, c, blockTime)

InitWith(m) ==
    /\ contract \in {"main", "example"}
    /\ mode = m
    /\ blockTime = 0
    /\ \E f \in {Deploy(contract, Deployer)} :
        /\ owner = f.st.owner
        /\ paused = f.st.paused
        /\ pausers = f.st.pausers
        /\ routeCounter = f.st.routeCounter
        /\ routeRequests = f.st.routeRequests
        /\ routeLocations = f.st.routeLocations
        /\ optimizedRoutes = f.st.optimizedRoutes
        /\ userRoutes = f.st.userRoutes
        /\ acl = f.st.acl
        /\ twin = f.st
    /\ emitted = EmptyMap

Init == InitWith("single")

InitPaired == InitWith("paired")

\* One call, atomically: the frame the function returns becomes the storage.
\* In a paired run the second run makes the same call with its plaintexts.
Transact(c) ==
    \E variant \in VariantsOf(mode, c) :
        \E f \in {Invoke(contract, Storage, c, blockTime)} :
            /\ f.st.routeCounter <= (IF mode = "paired" THEN MaxPairedRoutes
                                     ELSE MaxRoutes)
            /\ owner' = f.st.owner
            /\ paused' = f.st.paused
            /\ pausers' = f.st.pausers
            /\ routeCounter' = f.st.routeCounter
            /\ routeRequests' = f.st.routeRequests
            /\ routeLocations' = f.st.routeLocations
            /\ optimizedRoutes' = f.st.optimizedRoutes
            /\ userRoutes' = f.st.userRoutes
            /\ acl' = f.st.acl
            /\ \A key \in DOMAIN Logged(emitted, f.ev) :
                    Logged(emitted, f.ev)[key] <= MaxEmitted
            /\ emitted' = Logged(emitted, f.ev)
            /\ twin' = IF mode = "paired"
                       THEN Invoke(contract, twin, TwinCall(c, variant), blockTime).st
                       ELSE twin
            /\ UNCHANGED <<contract, blockTime, mode>>

\* a new block: block.timestamp advances
MineBlock ==
    /\ blockTime < MaxTime
    /\ blockTime' = blockTime + 1
    /\ UNCHANGED <<contract, owner, paused, pausers, routeCounter, routeRequests,
                   routeLocations, optimizedRoutes, userRoutes, acl,
                   emitted, mode, twin>>

(***************************************************************************)
(* The entry points, one action each.                                      *)
(***************************************************************************)
MainRequestRouteOptimization ==
    contract = "main" /\ \E c \in MainRequestCalls : Transact(c)

MainProcessRouteOptimization ==
    contract = "main" /\ \E c \in RouteCalls("processRouteOptimization") : Transact(c)

MainGetOptimizedRoute ==
    contract = "main" /\ \E c \in RouteCalls("getOptimizedRoute") : Transact(c)

MainMarkDeliveryCompleted ==
    contract = "main" /\ \E c \in LocationCalls("markDeliveryCompleted") : Transact(c)

MainGetUserRoutes ==
    contract = "main" /\ \E c \in AccountCalls("getUserRoutes") : Transact(c)

MainGetRouteRequest ==
    contract = "main" /\ \E c \in RouteCalls("getRouteRequest") : Transact(c)

MainGetRouteDataForOwner ==
    contract = "main" /\ \E c \in RouteCalls("getRouteDataForOwner") : Transact(c)

ExampleRequestRouteOptimization ==
    contract = "example" /\ \E c \in ExampleRequestCalls : Transact(c)

ExampleProcessRouteOptimization ==
    contract = "example" /\ \E c \in RouteCalls("processRouteOptimization") : Transact(c)

ExampleFinalizeRoute ==
    contract = "example" /\ \E c \in RouteCalls("finalizeRoute") : Transact(c)

ExampleMarkDeliveryCompleted ==
    contract = "example" /\ \E c \in LocationCalls("markDeliveryCompleted") : Transact(c)

ExampleGetUserRoutes ==
    contract = "example" /\ \E c \in AccountCalls("getUserRoutes") : Transact(c)

ExampleGetRouteRequest ==
    contract = "example" /\ \E c \in RouteCalls("getRouteRequest") : Transact(c)

ExampleAddPauser ==
    contract = "example" /\ \E c \in AccountCalls("addPauser") : Transact(c)

ExampleRemovePauser ==
    contract = "example" /\ \E c \in AccountCalls("removePauser") : Transact(c)

ExampleTogglePause ==
    contract = "example" /\ \E c \in SenderCalls("togglePause") : Transact(c)

ExampleTransferOwnership ==
    contract = "example" /\ \E c \in AccountCalls("transferOwnership") : Transact(c)

Next ==
    \/ MineBlock
    \/ MainRequestRouteOptimization
    \/ MainProcessRouteOptimization
    \/ MainGetOptimizedRoute
    \/ MainMarkDeliveryCompleted
    \/ MainGetUserRoutes
    \/ MainGetRouteRequest
    \/ MainGetRouteDataForOwner
    \/ ExampleRequestRouteOptimization
    \/ ExampleProcessRouteOptimization
    \/ ExampleFinalizeRoute
    \/ ExampleMarkDeliveryCompleted
    \/ ExampleGetUserRoutes
    \/ ExampleGetRouteRequest
    \/ ExampleAddPauser
    \/ ExampleRemovePauser
    \/ ExampleTogglePause
    \/ ExampleTransferOwnership

Spec == Init /\ [][Next]_vars

SpecPaired == InitPaired /\ [][Next]_vars

\* The owner's processing of route r as a step that changes the state: the
\* call succeeds.  An owner who keeps calling gets such a step in the end if
\* it stays possible.
OwnerProcesses(r) ==
    \E c \in RouteCalls("processRouteOptimization") :
        c.sender = owner /\ c.routeId = r /\ Transact(c)

\* fair scheduling of the owner's processing calls
SpecFair == Spec /\ \A r \in 1..MaxRoutes : WF_vars(OwnerProcesses(r))

(***************************************************************************)
(* Properties.  Each is stated over every call a client can make in the    *)
(* state at hand: Result(c) is the outcome the call would have now, and    *)
(* Invoke(contract, Result(c).st, d, blockTime) the outcome of a call d    *)
(* made right after it.                                                    *)
(***************************************************************************)

\* C1 (as stated): once a route is processed, processRouteOptimization on it
\* fails with RouteAlreadyProcessed, whichever identity makes the call.
C1_RepeatFailsWithRouteAlreadyProcessedForAnyCaller ==
    \A c \in Calls :
        (c.op = "processRouteOptimization" /\ Request(Storage, c.routeId).processed)
            => ErrorName(Result(c).err) = "RouteAlreadyProcessed"

\* C1 (amended): the owner's first processRouteOptimization of a submitted
\* route succeeds (contract not paused) and marks it processed; every later
\* processRouteOptimization of that route fails and changes nothing, with
\* RouteAlreadyProcessed when the owner makes it and the contract is not
\* paused (another caller is turned away first, with NotAuthorized, and the
\* owner of a paused contract with ContractPaused); no call clears processed.
C1_AtMostOnceProcessing ==
    \A c \in Calls : \A f \in {Result(c)} :
        /\ ( /\ c.op = "processRouteOptimization"
             /\ c.sender = owner
             /\ ~paused
             /\ Request(Storage, c.routeId).requester # NullAddress
             /\ ~Request(Storage, c.routeId).processed )
            => /\ f.err = NoError
               /\ Request(f.st, c.routeId).processed
               /\ \A d \in Calls :
                    (d.op = "processRouteOptimization" /\ d.routeId = c.routeId)
                        => \A g \in {Invoke(contract, f.st, d, blockTime)} :
                            /\ g.err # NoError
                            /\ g.st = f.st
                            /\ d.sender = owner
                                => ErrorName(g.err) = "RouteAlreadyProcessed"
                            /\ d.sender # owner
                                => ErrorName(g.err) = "NotAuthorized"
        /\ (c.op = "processRouteOptimization" /\ Request(Storage, c.routeId).processed)
            => /\ f.err # NoError
               /\ f.st = Storage
               /\ (c.sender = owner /\ ~paused)
                    => ErrorName(f.err) = "RouteAlreadyProcessed"
        /\ \A r \in DOMAIN routeRequests :
            routeRequests[r].processed => Request(f.st, r).processed

\* a processed route, and its owner's repeated call turned away
C1_Witness ==
    \E c \in Calls :
        /\ c.op = "processRouteOptimization"
        /\ c.sender = owner
        /\ ~paused
        /\ Request(Storage, c.routeId).processed
        /\ Route(Storage, c.routeId).routeId = c.routeId
        /\ ErrorName(Result(c).err) = "RouteAlreadyProcessed"

\* C2: a successful requestRouteOptimization returns the pre-call
\* routeCounter + 1 and leaves routeCounter one higher; no other call, and no
\* failed call, changes routeCounter; the ids issued are exactly
\* 1 .. routeCounter, so the id returned was never issued before and the
\* first is 1.
C2_MonotonicIds ==
    /\ DOMAIN routeRequests = 1..routeCounter
    /\ \A c \in Calls : \A f \in {Result(c)} :
        /\ (c.op = "requestRouteOptimization" /\ f.err = NoError)
            => /\ f.ret = <<routeCounter + 1>>
               /\ f.st.routeCounter = routeCounter + 1
               /\ f.ret[1] \notin DOMAIN routeRequests
               /\ DOMAIN f.st.routeRequests = 1..(routeCounter + 1)
        /\ (c.op # "requestRouteOptimization" \/ f.err # NoError)
            => f.st.routeCounter = routeCounter

\* two ids issued, to two requesters, and the third about to be
C2_Witness ==
    /\ routeCounter = 2
    /\ Request(Storage, 1).requester # Request(Storage, 2).requester
    /\ \E c \in Calls :
        /\ c.op = "requestRouteOptimization"
        /\ Result(c).err = NoError
        /\ Result(c).ret = <<3>>

\* C3: processRouteOptimization by a caller that is not the current owner
\* fails with NotAuthorized, for every route id and in every state, and
\* changes nothing (the route stays unprocessed).
C3_ProcessOnlyByOwner ==
    \A c \in Calls : \A f \in {Result(c)} :
        (c.op = "processRouteOptimization" /\ c.sender # owner)
            => /\ ErrorName(f.err) = "NotAuthorized"
               /\ f.st = Storage
               /\ Request(f.st, c.routeId).processed
                    = Request(Storage, c.routeId).processed

\* a submitted, unprocessed route, and its requester, who is not the owner,
\* asking to process it
C3_Witness ==
    \E c \in Calls :
        /\ c.op = "processRouteOptimization"
        /\ c.sender # owner
        /\ c.sender = Request(Storage, c.routeId).requester
        /\ ~Request(Storage, c.routeId).processed
        /\ ErrorName(Result(c).err) = "NotAuthorized"

\* C4: markDeliveryCompleted and getOptimizedRoute by a caller other than
\* the route's requester fail with NotYourRoute, the owner's calls included,
\* and change no location.
C4_OnlyRequesterCompletesAndReads ==
    \A c \in Calls : \A f \in {Result(c)} :
        ( /\ c.op \in {"markDeliveryCompleted", "getOptimizedRoute"}
          /\ c.sender # Request(Storage, c.routeId).requester )
            => /\ ErrorName(f.err) = "NotYourRoute"
               /\ f.st.routeLocations = routeLocations

\* the owner asking to complete a delivery, and to read the result, of a
\* processed route that another identity requested
C4_Witness ==
    \E c \in Calls :
        /\ c.op \in {"markDeliveryCompleted", "getOptimizedRoute"}
        /\ c.sender = owner
        /\ Request(Storage, c.routeId).requester \notin {NullAddress, owner}
        /\ Request(Storage, c.routeId).processed
        /\ c.locationIndex < Request(Storage, c.routeId).locationCount
        /\ ErrorName(Result(c).err) = "NotYourRoute"

\* C5 (as stated): while paused, requestRouteOptimization,
\* processRouteOptimization and markDeliveryCompleted fail with
\* ContractPaused for every caller and argument and change nothing;
\* getUserRoutes and getRouteRequest answer.
C5_PausedCallsFailWithContractPausedForAnyCaller ==
    paused =>
        \A c \in Calls : \A f \in {Result(c)} :
            /\ c.op \in {"requestRouteOptimization", "processRouteOptimization",
                         "markDeliveryCompleted"}
                => (f.err = "ContractPaused" /\ f.st = Storage)
            /\ c.op \in {"getUserRoutes", "getRouteRequest"} => f.err = NoError

\* C5 (amended): while paused the three calls fail and change nothing;
\* the failure is ContractPaused when the caller passes the function's
\* identity check (anyone for requestRouteOptimization, the owner for
\* processRouteOptimization, the route's requester for
\* markDeliveryCompleted), and the identity check's own error otherwise
\* (NotAuthorized, NotYourRoute), since it runs first; getUserRoutes and
\* getRouteRequest answer.
C5_PauseGating ==
    paused =>
        \A c \in Calls : \A f \in {Result(c)} :
            /\ c.op \in {"requestRouteOptimization", "processRouteOptimization",
                         "markDeliveryCompleted"}
                => (f.err # NoError /\ f.st = Storage /\ f.ev = <<>>)
            /\ c.op = "requestRouteOptimization" => f.err = "ContractPaused"
            /\ c.op = "processRouteOptimization"
                => f.err = (IF c.sender = owner THEN "ContractPaused"
                            ELSE "NotAuthorized")
            /\ c.op = "markDeliveryCompleted"
                => f.err = (IF c.sender = Request(Storage, c.routeId).requester
                            THEN "ContractPaused" ELSE "NotYourRoute")
            /\ c.op \in {"getUserRoutes", "getRouteRequest"}
                => (f.err = NoError /\ f.st = Storage)

\* paused, with a processed route whose requester asks to complete a delivery
C5_Witness ==
    /\ paused
    /\ \E c \in Calls :
        /\ c.op = "markDeliveryCompleted"
        /\ c.sender = Request(Storage, c.routeId).requester
        /\ Request(Storage, c.routeId).processed
        /\ Result(c).err = "ContractPaused"
    /\ \E c \in Calls :
        /\ c.op = "getRouteRequest"
        /\ Result(c).err = NoError
        /\ Result(c).ret[3]

\* C6 (as stated): on a processed route the requester's
\* markDeliveryCompleted fails with InvalidLocationIndex for every index
\* >= locationCount, and with LocationAlreadyCompleted when repeated after it
\* has succeeded.
C6_IndexErrorsOnAnyProcessedRoute ==
    \A c \in Calls : \A f \in {Result(c)} :
        ( /\ c.op = "markDeliveryCompleted"
          /\ c.sender = Request(Storage, c.routeId).requester
          /\ Request(Storage, c.routeId).processed )
            => /\ c.locationIndex >= Request(Storage, c.routeId).locationCount
                    => ErrorName(f.err) = "InvalidLocationIndex"
               /\ f.err = NoError
                    => ErrorName(Invoke(contract, f.st, c, blockTime).err)
                            = "LocationAlreadyCompleted"

\* C6 (amended): the same, while the contract is not paused (a paused
\* contract answers ContractPaused before it looks at the index); a failed
\* call changes nothing, and a call succeeds only with an index below
\* locationCount.
C6_IndexBounds ==
    \A c \in Calls : \A f \in {Result(c)} :
        ( /\ c.op = "markDeliveryCompleted"
          /\ c.sender = Request(Storage, c.routeId).requester
          /\ Request(Storage, c.routeId).processed
          /\ ~paused )
            => /\ c.locationIndex >= Request(Storage, c.routeId).locationCount
                    => (ErrorName(f.err) = "InvalidLocationIndex" /\ f.st = Storage)
               /\ f.err = NoError
                    => /\ c.locationIndex < Request(Storage, c.routeId).locationCount
                       /\ \A g \in {Invoke(contract, f.st, c, blockTime)} :
                            /\ ErrorName(g.err) = "LocationAlreadyCompleted"
                            /\ g.st = f.st
               /\ ( /\ c.locationIndex < Request(Storage, c.routeId).locationCount
                    /\ ~Location(Storage, c.routeId, c.locationIndex).isActive )
                    => (ErrorName(f.err) = "LocationAlreadyCompleted" /\ f.st = Storage)

\* a location completed by an earlier call (it was written active, and is
\* not now), the repeated call turned away, and an index past the end
C6_Witness ==
    \E c \in Calls :
        /\ c.op = "markDeliveryCompleted"
        /\ c.sender = Request(Storage, c.routeId).requester
        /\ Request(Storage, c.routeId).processed
        /\ ~paused
        /\ c.locationIndex < Request(Storage, c.routeId).locationCount
        /\ Location(Storage, c.routeId, c.locationIndex).encryptedX # NoCipher
        /\ ~Location(Storage, c.routeId, c.locationIndex).isActive
        /\ ErrorName(Result(c).err) = "LocationAlreadyCompleted"
        /\ \E d \in Calls :
            /\ d.op = "markDeliveryCompleted"
            /\ d.sender = c.sender
            /\ d.routeId = c.routeId
            /\ d.locationIndex = Request(Storage, c.routeId).locationCount
            /\ ErrorName(Result(d).err) = "InvalidLocationIndex"

\* C7 (as stated): a successful requestRouteOptimization leaves every
\* location below locationCount active, and right after a successful
\* processRouteOptimization (contract not paused) the requester's
\* markDeliveryCompleted succeeds for every index below locationCount, clears
\* that location's isActive and emits DeliveryCompleted(routeId, index,
\* timestamp).
C7_FirstCompletionSucceeds ==
    \A c \in Calls : \A f \in {Result(c)} :
        /\ (c.op = "requestRouteOptimization" /\ f.err = NoError)
            => \A i \in 0..(Request(f.st, f.ret[1]).locationCount - 1) :
                    Location(f.st, f.ret[1], i).isActive
        /\ (c.op = "processRouteOptimization" /\ f.err = NoError)
            => \A m \in Calls :
                ( /\ m.op = "markDeliveryCompleted"
                  /\ m.routeId = c.routeId
                  /\ m.sender = Request(f.st, c.routeId).requester
                  /\ m.locationIndex < Request(f.st, c.routeId).locationCount )
                    => \A g \in {Invoke(contract, f.st, m, blockTime)} :
                        /\ g.err = NoError
                        /\ ~Location(g.st, m.routeId, m.locationIndex).isActive
                        /\ g.ev = << <<"DeliveryCompleted", m.routeId,
                                       m.locationIndex, blockTime>> >>

\* C8: in the contract that takes arrays, requestRouteOptimization fails with
\* CoordinateArraysMismatch when the X and Y arrays differ in length, with
\* PriorityArrayMismatch when they agree and the priority array differs from
\* them, with NoLocationsProvided when all three are empty; each time
\* routeCounter, the requests and the caller's route list are unchanged.
C8_ArrayValidation ==
    contract = "main" =>
        \A c \in Calls : \A f \in {Result(c)} :
            c.op = "requestRouteOptimization"
                => /\ Len(c.xCoords) # Len(c.yCoords)
                        => ErrorName(f.err) = "CoordinateArraysMismatch"
                   /\ (Len(c.xCoords) = Len(c.yCoords)
                            /\ Len(c.priorities) # Len(c.xCoords))
                        => ErrorName(f.err) = "PriorityArrayMismatch"
                   /\ (Len(c.xCoords) = 0 /\ Len(c.yCoords) = 0
                            /\ Len(c.priorities) = 0)
                        => ErrorName(f.err) = "NoLocationsProvided"
                   /\ ErrorName(f.err) \in {"CoordinateArraysMismatch",
                            "PriorityArrayMismatch", "NoLocationsProvided"}
                        => /\ f.st.routeCounter = routeCounter
                           /\ f.st.routeRequests = routeRequests
                           /\ f.st.userRoutes = userRoutes
                           /\ f.st.routeLocations = routeLocations

\* a caller with a route already, submitting two X for one Y, two
\* coordinates for one priority, and nothing at all
C8_Witness ==
    /\ contract = "main"
    /\ \E c \in Calls :
        /\ c.op = "requestRouteOptimization"
        /\ RoutesOf(Storage, c.sender) # <<>>
        /\ Len(c.xCoords) = 2 /\ Len(c.yCoords) = 1
        /\ Result(c).err = "Coordinate arrays must match"
    /\ \E c \in Calls :
        /\ c.op = "requestRouteOptimization"
        /\ Len(c.xCoords) = 2 /\ Len(c.yCoords) = 2 /\ Len(c.priorities) = 1
        /\ Result(c).err = "Priority array must match"
    /\ \E c \in Calls :
        /\ c.op = "requestRouteOptimization"
        /\ Len(c.xCoords) = 0 /\ Len(c.yCoords) = 0 /\ Len(c.priorities) = 0
        /\ Result(c).err = "Must have at least one location"

\* C9: a call that ends in an error, whichever, leaves the whole storage
\* (owner, pausers, paused, routeCounter, requests, locations, optimized
\* routes, route lists, grants) as it was and emits no event.
C9_ErrorsChangeNothing ==
    \A c \in Calls : \A f \in {Result(c)} :
        f.err # NoError => (f.st = Storage /\ f.ev = <<>> /\ f.ret = NoReturn)

\* calls failing after the function has written (the location loop's counter
\* overflowing) and before it has (a processed route processed again)
C9_Witness ==
    /\ routeCounter > 0
    /\ \E c \in Calls :
        c.op = "processRouteOptimization"
            /\ ErrorName(Result(c).err) = "RouteAlreadyProcessed"
    /\ (contract = "main"
            => \E c \in Calls : Result(c).err = "Panic(0x11)")
    /\ (contract = "example"
            => \E c \in Calls : Result(c).err = "ContractPaused")

\* C10: two runs of the same calls by the same callers, differing in the
\* plaintext coordinates, priorities, maxDistance and capacity submitted,
\* show the same locationOrder of every route, and every call made now has
\* the same public outcome in both: the same error, the same events with the
\* same payloads, the same getRouteRequest and getUserRoutes answers, the
\* same route id returned, and the same locationOrder stored.
C10_ConfidentialityBoundary ==
    mode = "paired" =>
        /\ \A r \in RouteIdSamples :
            Route(Storage, r).locationOrder = Route(twin, r).locationOrder
        /\ \A c \in Calls : \A variant \in VariantsOf(mode, c) :
            \A a \in {Result(c)} :
                \A b \in {Invoke(contract, twin, TwinCall(c, variant), blockTime)} :
                    /\ a.err = b.err
                    /\ a.ev = b.ev
                    /\ c.op \in {"getRouteRequest", "getUserRoutes",
                                 "requestRouteOptimization"} => a.ret = b.ret
                    /\ \A r \in RouteIdSamples :
                        Route(a.st, r).locationOrder = Route(b.st, r).locationOrder

\* two runs with a processed route whose plaintexts differ between them
C10_Witness ==
    /\ mode = "paired"
    /\ \E r \in DOMAIN optimizedRoutes :
        /\ r \in DOMAIN twin.optimizedRoutes
        /\ Request(Storage, r).processed
        /\ Request(twin, r).maxTravelDistance.v # Request(Storage, r).maxTravelDistance.v
    /\ (contract = "main"
            => \E r \in DOMAIN optimizedRoutes :
                /\ r \in DOMAIN twin.optimizedRoutes
                /\ Route(twin, r).totalDistance.v # Route(Storage, r).totalDistance.v)

C12_StoredCiphertextsAreGranted ==
    \A r \in 1..routeCounter :
        \A request \in {Request(Storage, r)} :
            \A cipher \in
                {request.maxTravelDistance, request.vehicleCapacity}
                \cup UNION {{Location(Storage, r, i).encryptedX,
                             Location(Storage, r, i).encryptedY,
                             Location(Storage, r, i).priority} :
                            i \in 0..(request.locationCount - 1)}
                \cup (IF request.processed
                      THEN {Route(Storage, r).totalDistance,
                            Route(Storage, r).estimatedTime}
                      ELSE {}) :
                cipher # NoCipher
                    => /\ <<cipher.h, This>> \in acl
                       /\ <<cipher.h, request.requester>> \in acl

C14_RequestRecordsWhatWasSubmitted ==
    \A c \in Calls : \A f \in {Result(c)} :
        (c.op = "requestRouteOptimization" /\ f.err = NoError)
            => \A pairs \in {IF contract = "main" THEN Len(c.xCoords) ELSE 1} :
                /\ f.ret = <<routeCounter + 1>>
                /\ Request(Storage, f.ret[1]) = ZeroRequest
                /\ Request(f.st, f.ret[1]).requester = c.sender
                /\ Request(f.st, f.ret[1]).locationCount = pairs
                /\ Request(f.st, f.ret[1]).processed = FALSE
                /\ Invoke(contract, f.st,
                          [NoCall EXCEPT !.op = "getRouteRequest",
                                         !.sender = c.sender,
                                         !.routeId = f.ret[1]],
                          blockTime).ret
                    = <<c.sender, pairs, FALSE, blockTime>>
                /\ Len(f.ev) = 1
                /\ f.ev[1][1] = "RouteRequested"
                /\ f.ev[1][2] = f.ret[1]
                /\ f.ev[1][3] = c.sender
                /\ f.ev[1][4] = pairs

\* C15: in every reachable state and for every route id, an OptimizedRoute
\* record exists for the id exactly when the request is processed; when it
\* exists its routeId is the id and its requester the request's requester;
\* and the request's optimizedRouteId is the id when processed and 0
\* otherwise.
C15_ResultRecordMatchesProcessedFlag ==
    \A r \in 0..(MaxRoutes + 1) :
        \A request \in {Request(Storage, r)} : \A route \in {Route(Storage, r)} :
            /\ (route # ZeroRoute) <=> request.processed
            /\ (r \in DOMAIN optimizedRoutes) <=> request.processed
            /\ route # ZeroRoute
                => /\ route.routeId = r
                   /\ route.requester = request.requester
                   /\ route.requester # NullAddress
            /\ request.optimizedRouteId = (IF request.processed THEN r ELSE 0)

\* two submitted routes, one processed with its record and back-reference,
\* the other unprocessed with neither
C15_Witness ==
    \E r \in 1..routeCounter : \E u \in 1..routeCounter :
        /\ Request(Storage, r).processed
        /\ Route(Storage, r).routeId = r
        /\ Request(Storage, r).optimizedRouteId = r
        /\ Request(Storage, u).requester # NullAddress
        /\ ~Request(Storage, u).processed
        /\ Route(Storage, u) = ZeroRoute
        /\ Request(Storage, u).optimizedRouteId = 0

\* C16: for every processed route, locationOrder is the identity permutation
\* [0, 1, ..., locationCount - 1]; in particular its length is locationCount.
C16_LocationOrderIsIdentity ==
    \A r \in 1..routeCounter :
        Request(Storage, r).processed
            => \A order \in {Route(Storage, r).locationOrder} :
                /\ Len(order) = Request(Storage, r).locationCount
                /\ \A k \in 1..Len(order) : order[k] = k - 1

\* a processed route of at least two locations with its order 0, 1, ...
C16_Witness ==
    \E r \in 1..routeCounter :
        /\ Request(Storage, r).processed
        /\ Request(Storage, r).locationCount >= 2
        /\ Route(Storage, r).locationOrder[1] = 0
        /\ Route(Storage, r).locationOrder[2] = 1

\* C17: processRouteOptimization called by the owner while the contract is
\* not paused fails with InvalidRoute for every route id that was never
\* submitted (no requester recorded), id 0 and every id above routeCounter
\* included, and creates no OptimizedRoute.
C17_UnsubmittedRouteIsInvalid ==
    \A r \in 0..(MaxRoutes + 1) :
        /\ (r = 0 \/ r > routeCounter) => Request(Storage, r).requester = NullAddress
        /\ (Request(Storage, r).requester = NullAddress /\ ~paused)
            => \A f \in {Invoke(contract, Storage,
                            [NoCall EXCEPT !.op = "processRouteOptimization",
                                           !.sender = owner, !.routeId = r],
                            blockTime)} :
                /\ ErrorName(f.err) = "InvalidRoute"
                /\ f.st = Storage
                /\ Route(f.st, r) = ZeroRoute
                /\ f.ev = <<>>

\* with one route submitted, the owner's calls for id 0 and for the id after
\* the counter both end InvalidRoute
C17_Witness ==
    /\ routeCounter = 1
    /\ ~paused
    /\ \A r \in {0, 2} : \E c \in Calls :
        /\ c.op = "processRouteOptimization"
        /\ c.sender = owner
        /\ c.routeId = r
        /\ ErrorName(Result(c).err) = "InvalidRoute"

\* C18: the route lifecycle is one-way.  Whatever call is made next, a route
\* whose processed flag is true keeps it true and a route whose finalized
\* flag is true keeps it true; and in every reachable state finalized implies
\* processed.
C18_LifecycleIsOneWay ==
    /\ \A r \in 0..(MaxRoutes + 1) :
        Route(Storage, r).finalized => Request(Storage, r).processed
    /\ \A c \in Calls : \A f \in {Result(c)} :
        \A r \in 0..(MaxRoutes + 1) :
            /\ Request(Storage, r).processed => Request(f.st, r).processed
            /\ Route(Storage, r).finalized => Route(f.st, r).finalized

\* a finalized route that the owner finalizes again: the call succeeds and
\* the route stays processed and finalized
C18_Witness ==
    \E c \in Calls :
        /\ c.op = "finalizeRoute"
        /\ Route(Storage, c.routeId).finalized
        /\ Request(Storage, c.routeId).processed
        /\ Result(c).err = NoError
        /\ Route(Result(c).st, c.routeId).finalized
        /\ Request(Result(c).st, c.routeId).processed

\* C19: a DeliveryLocation's isActive goes from true to false at most once.
\* No call sets isActive of a location of an existing route back to true,
\* and for each (routeId, idx) DeliveryCompleted has been emitted at most
\* once, and only for a location that is no longer active.
C19_DeliveryCompletedAtMostOnce ==
    /\ \A r \in 0..(MaxRoutes + 1) : \A i \in IndexSamples :
        /\ Count(emitted, <<"DeliveryCompleted", r, i>>) <= 1
        /\ Count(emitted, <<"DeliveryCompleted", r, i>>) = 1
            => /\ Location(Storage, r, i).encryptedX # NoCipher
               /\ ~Location(Storage, r, i).isActive
    /\ \A c \in Calls : \A f \in {Result(c)} :
        \A r \in 1..routeCounter : \A i \in IndexSamples :
            ~Location(Storage, r, i).isActive => ~Location(f.st, r, i).isActive

\* a location completed once: its event is in the log once, it is inactive,
\* and the requester's second call for it fails and leaves it inactive
C19_Witness ==
    \E c \in Calls :
        /\ c.op = "markDeliveryCompleted"
        /\ c.sender = Request(Storage, c.routeId).requester
        /\ Count(emitted, <<"DeliveryCompleted", c.routeId, c.locationIndex>>) = 1
        /\ ~Location(Storage, c.routeId, c.locationIndex).isActive
        /\ ErrorName(Result(c).err) = "LocationAlreadyCompleted"
        /\ Result(c).ev = <<>>

\* C20 (as stated): markDeliveryCompleted by the requester fails with
\* RouteNotProcessed while the route is unprocessed, whatever else holds;
\* and a DeliveryCompleted event of a route is never in the log before the
\* route's RouteOptimized event.
C20_UnprocessedFailsWithRouteNotProcessedAlways ==
    /\ \A c \in Calls :
        ( /\ c.op = "markDeliveryCompleted"
          /\ c.sender = Request(Storage, c.routeId).requester
          /\ ~Request(Storage, c.routeId).processed )
            => ErrorName(Result(c).err) = "RouteNotProcessed"
    /\ \A r \in 0..(MaxRoutes + 1) : \A i \in IndexSamples :
        Count(emitted, <<"DeliveryCompleted", r, i>>) >= 1
            => Count(emitted, <<"RouteOptimized", r>>) >= 1

\* C20 (amended): markDeliveryCompleted by the requester on an unprocessed
\* route fails with RouteNotProcessed while the contract is not paused and
\* with ContractPaused while it is paused, changing nothing; consequently a
\* DeliveryCompleted event of a route is never in the log before the route's
\* RouteOptimized event.
C20_NoCompletionBeforeProcessing ==
    /\ \A c \in Calls : \A f \in {Result(c)} :
        ( /\ c.op = "markDeliveryCompleted"
          /\ c.sender = Request(Storage, c.routeId).requester
          /\ ~Request(Storage, c.routeId).processed )
            => /\ ErrorName(f.err) = (IF paused THEN "ContractPaused"
                                      ELSE "RouteNotProcessed")
               /\ f.st = Storage
               /\ f.ev = <<>>
    /\ \A r \in 0..(MaxRoutes + 1) : \A i \in IndexSamples :
        Count(emitted, <<"DeliveryCompleted", r, i>>) > 0
            => Count(emitted, <<"RouteOptimized", r>>) > 0

\* an unprocessed route whose requester's call fails with RouteNotProcessed,
\* beside a route whose DeliveryCompleted came after its RouteOptimized
C20_Witness ==
    /\ \E c \in Calls :
        /\ c.op = "markDeliveryCompleted"
        /\ c.sender = Request(Storage, c.routeId).requester
        /\ c.locationIndex < Request(Storage, c.routeId).locationCount
        /\ ~Request(Storage, c.routeId).processed
        /\ ErrorName(Result(c).err) = "RouteNotProcessed"
    /\ \E r \in 1..routeCounter : \E i \in IndexSamples :
        /\ Count(emitted, <<"DeliveryCompleted", r, i>>) = 1
        /\ Count(emitted, <<"RouteOptimized", r>>) = 1

\* C21 (as stated): finalizeRoute(routeId) fails with NotAuthorized for every
\* caller but the owner; called by the owner it fails with RouteNotProcessed
\* if the request is not processed (never-submitted ids included), and
\* otherwise sets the OptimizedRoute's finalized flag, emits RouteFinalized
\* and changes nothing else.
C21_FinalizeRouteWhateverThePause ==
    \A c \in Calls : \A f \in {Result(c)} :
        c.op = "finalizeRoute"
            => IF c.sender # owner THEN f.err = "NotAuthorized"
               ELSE IF ~Request(Storage, c.routeId).processed
                    THEN f.err = "RouteNotProcessed"
               ELSE /\ f.err = NoError
                    /\ f.st = [Storage EXCEPT !.optimizedRoutes[c.routeId].finalized = TRUE]
                    /\ Len(f.ev) = 1
                    /\ f.ev[1][1] = "RouteFinalized"
                    /\ f.ev[1][2] = c.routeId

\* C21 (amended): finalizeRoute(routeId) fails with NotAuthorized for every
\* caller but the owner; called by the owner while the contract is paused it
\* fails with ContractPaused; called by the owner while not paused it fails
\* with RouteNotProcessed if the request is not processed (never-submitted
\* ids included), and otherwise sets the OptimizedRoute's finalized flag,
\* emits RouteFinalized and changes nothing else.  A failed call changes
\* nothing.
C21_FinalizeRoute ==
    \A c \in Calls : \A f \in {Result(c)} :
        c.op = "finalizeRoute"
            => /\ f.err # NoError => (f.st = Storage /\ f.ev = <<>>)
               /\ IF c.sender # owner THEN f.err = "NotAuthorized"
                  ELSE IF paused THEN f.err = "ContractPaused"
                  ELSE IF ~Request(Storage, c.routeId).processed
                       THEN f.err = "RouteNotProcessed"
                  ELSE /\ f.err = NoError
                       /\ f.st = [Storage EXCEPT
                                    !.optimizedRoutes[c.routeId].finalized = TRUE]
                       /\ Len(f.ev) = 1
                       /\ f.ev[1][1] = "RouteFinalized"
                       /\ f.ev[1][2] = c.routeId

\* a processed route not yet finalized: the owner's call finalizes it, another
\* caller's call fails with NotAuthorized, and the owner's call for a route
\* never submitted fails with RouteNotProcessed
C21_Witness ==
    \E c \in Calls : \E d \in Calls : \E e \in Calls :
        /\ c.op = "finalizeRoute" /\ d.op = "finalizeRoute" /\ e.op = "finalizeRoute"
        /\ c.sender = owner
        /\ Request(Storage, c.routeId).processed
        /\ ~Route(Storage, c.routeId).finalized
        /\ Result(c).err = NoError
        /\ Route(Result(c).st, c.routeId).finalized
        /\ d.sender # owner /\ d.routeId = c.routeId
        /\ Result(d).err = "NotAuthorized"
        /\ e.sender = owner
        /\ Request(Storage, e.routeId).requester = NullAddress
        /\ Result(e).err = "RouteNotProcessed"

\* C22 (as stated): finalizeRoute is guarded against repetition.  A
\* finalizeRoute call on a route already finalized is a no-op or an error and
\* emits nothing, and the log holds at most one RouteFinalized per route.
C22_FinalizeRouteGuardedAgainstRepetition ==
    /\ \A r \in 0..(MaxRoutes + 1) : Count(emitted, <<"RouteFinalized", r>>) <= 1
    /\ \A c \in Calls : \A f \in {Result(c)} :
        (c.op = "finalizeRoute" /\ Route(Storage, c.routeId).finalized)
            => (f.st = Storage /\ f.ev = <<>>)

\* C23: togglePause succeeds exactly when the caller is the current owner or
\* is in the pauser set, and fails with NotPauser otherwise; an identity that
\* removePauser has just removed, and that is not the owner, can no longer
\* toggle the pause.
C23_TogglePauseByOwnerOrPauser ==
    \A c \in Calls : \A f \in {Result(c)} :
        /\ c.op = "togglePause"
            => /\ f.err = NoError <=> (c.sender = owner \/ c.sender \in pausers)
               /\ f.err # NoError => (f.err = "NotPauser" /\ f.st = Storage)
        /\ (c.op = "removePauser" /\ f.err = NoError /\ c.account # owner)
            => Invoke(contract, f.st,
                      [NoCall EXCEPT !.op = "togglePause", !.sender = c.account],
                      blockTime).err = "NotPauser"

\* a pauser who is not the owner and can toggle the pause now, and cannot
\* once the owner's removePauser has removed them
C23_Witness ==
    \E c \in Calls : \E t \in Calls :
        /\ c.op = "removePauser" /\ t.op = "togglePause"
        /\ c.account # owner
        /\ c.account \in pausers
        /\ t.sender = c.account
        /\ Result(t).err = NoError
        /\ Result(c).err = NoError
        /\ Invoke(contract, Result(c).st, t, blockTime).err = "NotPauser"

\* C24: a successful togglePause negates the paused flag, emits
\* ContractPausedToggled with the new value and leaves the owner, the pauser
\* set, routeCounter, the requests, locations, optimized routes and user
\* route lists unchanged; a second toggle right after it restores the state
\* before the first.
C24_TogglePauseFlipsOnlyTheFlag ==
    \A c \in Calls : \A f \in {Result(c)} :
        (c.op = "togglePause" /\ f.err = NoError)
            => /\ f.st.paused = ~paused
               /\ f.st = [Storage EXCEPT !.paused = ~paused]
               /\ f.ev = << <<"ContractPausedToggled", ~paused>> >>
               /\ \A g \in {Invoke(contract, f.st, c, blockTime)} :
                    /\ g.err = NoError
                    /\ g.st = Storage
                    /\ g.ev = << <<"ContractPausedToggled", paused>> >>

\* a paused contract with a route in it: a pauser's toggle unpauses it and
\* leaves the route as it is
C24_Witness ==
    \E c \in Calls :
        /\ c.op = "togglePause"
        /\ paused
        /\ routeCounter >= 1
        /\ Result(c).err = NoError
        /\ ~Result(c).st.paused
        /\ Result(c).st.routeRequests = routeRequests

\* C25: addPauser called by the owner fails with InvalidAddress if the target
\* is the null identity and with AlreadyPauser if the target is a pauser
\* already; otherwise it adds exactly that identity to the pauser set and
\* emits PauserAdded; called by anyone else, a pauser included, it fails with
\* NotAuthorized.
C25_AddPauser ==
    \A c \in Calls : \A f \in {Result(c)} :
        c.op = "addPauser"
            => /\ f.err # NoError => (f.st = Storage /\ f.ev = <<>>)
               /\ IF c.sender # owner THEN f.err = "NotAuthorized"
                  ELSE IF c.account = NullAddress THEN f.err = "InvalidAddress"
                  ELSE IF c.account \in pausers THEN f.err = "AlreadyPauser"
                  ELSE /\ f.err = NoError
                       /\ f.st = [Storage EXCEPT !.pausers = pausers \cup {c.account}]
                       /\ f.st.pausers # pausers
                       /\ f.ev = << <<"PauserAdded", c.account>> >>

\* the owner adds an identity that is no pauser yet, while the same call by
\* a pauser who is not the owner fails with NotAuthorized
C25_Witness ==
    \E c \in Calls : \E d \in Calls :
        /\ c.op = "addPauser" /\ d.op = "addPauser"
        /\ c.sender = owner
        /\ c.account \notin pausers /\ c.account # NullAddress
        /\ Result(c).err = NoError
        /\ c.account \in Result(c).st.pausers
        /\ d.sender # owner /\ d.sender \in pausers
        /\ d.account = c.account
        /\ Result(d).err = "NotAuthorized"

\* C26: removePauser called by the owner fails with NotPauser if the target
\* is not a pauser; otherwise it removes exactly that identity from the
\* pauser set and emits PauserRemoved; and after the owner adds an identity
\* and then removes it the pauser set is the set before the add.
C26_RemovePauser ==
    \A c \in Calls : \A f \in {Result(c)} :
        /\ (c.op = "removePauser" /\ c.sender = owner)
            => IF c.account \notin pausers
               THEN f.err = "NotPauser" /\ f.st = Storage /\ f.ev = <<>>
               ELSE /\ f.err = NoError
                    /\ f.st = [Storage EXCEPT !.pausers = pausers \ {c.account}]
                    /\ f.st.pausers # pausers
                    /\ f.ev = << <<"PauserRemoved", c.account>> >>
        /\ (c.op = "addPauser" /\ f.err = NoError)
            => \A g \in {Invoke(contract, f.st,
                            [c EXCEPT !.op = "removePauser"], blockTime)} :
                /\ g.err = NoError
                /\ g.st.pausers = pausers
                /\ g.st = Storage

\* the owner removes a pauser, and the owner's add of a new pauser followed
\* by its removal gives the pauser set back
C26_Witness ==
    \E c \in Calls : \E a \in Calls :
        /\ c.op = "removePauser" /\ a.op = "addPauser"
        /\ c.sender = owner /\ c.account \in pausers
        /\ Result(c).err = NoError
        /\ c.account \notin Result(c).st.pausers
        /\ Result(a).err = NoError
        /\ Result(a).st.pausers # pausers
        /\ Invoke(contract, Result(a).st, [a EXCEPT !.op = "removePauser"],
                  blockTime).st.pausers = pausers

\* the operations that carry onlyOwner
OwnerOnlyOperations ==
    {"processRouteOptimization", "finalizeRoute", "addPauser", "removePauser",
     "transferOwnership"}

\* C27 (as stated): transferOwnership fails with NotAuthorized for every
\* caller but the owner and with InvalidAddress for the null identity;
\* otherwise it sets owner to the new identity and emits
\* OwnershipTransferred(previous, new), after which the owner-only operations
\* pass their owner check only for the new owner and fail with NotAuthorized
\* for the previous owner.
C27_PreviousOwnerAlwaysLosesTheRole ==
    \A c \in Calls : \A f \in {Result(c)} :
        c.op = "transferOwnership"
            => IF c.sender # owner THEN f.err = "NotAuthorized"
               ELSE IF c.account = NullAddress THEN f.err = "InvalidAddress"
               ELSE /\ f.err = NoError
                    /\ f.st.owner = c.account
                    /\ f.ev = << <<"OwnershipTransferred", owner, c.account>> >>
                    /\ \A d \in Calls :
                        d.op \in OwnerOnlyOperations
                            => \A g \in {Invoke(contract, f.st, d, blockTime)} :
                                /\ g.err # "NotAuthorized" => d.sender = c.account
                                /\ d.sender = owner => g.err = "NotAuthorized"

\* C27 (amended): transferOwnership fails with NotAuthorized for every caller
\* but the owner and with InvalidAddress for the null identity; otherwise it
\* sets owner to the new identity, changes nothing else and emits
\* OwnershipTransferred(previous, new), after which the owner-only operations
\* pass their owner check for the new owner and fail with NotAuthorized for
\* everyone else, the previous owner included unless the owner transferred
\* the ownership to itself.
C27_TransferOwnership ==
    \A c \in Calls : \A f \in {Result(c)} :
        c.op = "transferOwnership"
            => /\ f.err # NoError => (f.st = Storage /\ f.ev = <<>>)
               /\ IF c.sender # owner THEN f.err = "NotAuthorized"
                  ELSE IF c.account = NullAddress THEN f.err = "InvalidAddress"
                  ELSE /\ f.err = NoError
                       /\ f.st = [Storage EXCEPT !.owner = c.account]
                       /\ f.ev = << <<"OwnershipTransferred", owner, c.account>> >>
                       /\ \A d \in Calls :
                            d.op \in OwnerOnlyOperations
                                => \A g \in {Invoke(contract, f.st, d, blockTime)} :
                                    g.err = "NotAuthorized" <=> d.sender # c.account

\* the owner hands the ownership to another identity while a route waits:
\* after it the new owner can process the route and the previous cannot
C27_Witness ==
    \E c \in Calls : \E d \in Calls : \E e \in Calls :
        /\ c.op = "transferOwnership"
        /\ c.sender = owner /\ c.account \notin {owner, NullAddress}
        /\ Result(c).err = NoError
        /\ d.op = "processRouteOptimization" /\ e.op = "processRouteOptimization"
        /\ d.routeId = e.routeId
        /\ d.sender = c.account /\ e.sender = owner
        /\ Result(d).err = "NotAuthorized"
        /\ Result(e).err = NoError
        /\ Invoke(contract, Result(c).st, d, blockTime).err = NoError
        /\ Invoke(contract, Result(c).st, e, blockTime).err = "NotAuthorized"

\* C28: for every identity, getUserRoutes(identity) returns exactly the ids
\* of the routes whose requester is that identity, each once, in the order
\* they were created (ids are given out in increasing order); and every id
\* in 1..routeCounter is in exactly one identity's list.
C28_UserRoutesAreTheRequestersRoutes ==
    /\ \A c \in Calls : \A f \in {Result(c)} :
        c.op = "getUserRoutes"
            => /\ f.err = NoError
               /\ f.st = Storage
               /\ {f.ret[k] : k \in DOMAIN f.ret}
                    = {r \in 1..routeCounter :
                            Request(Storage, r).requester = c.account}
               /\ \A j \in DOMAIN f.ret : \A k \in DOMAIN f.ret :
                    j < k => f.ret[j] < f.ret[k]
    /\ \A r \in 1..routeCounter :
        Cardinality({u \in Addresses :
            \E k \in DOMAIN RoutesOf(Storage, u) : RoutesOf(Storage, u)[k] = r}) = 1

\* two submissions by one identity with all routes handed out: its list is
\* <<1, 2>> and the other identities' lists are empty
C28_Witness ==
    \E c \in Calls :
        /\ c.op = "getUserRoutes"
        /\ routeCounter = 2
        /\ Result(c).ret = <<1, 2>>
        /\ Request(Storage, 1).requester = c.account
        /\ Request(Storage, 2).requester = c.account

\* C29: getOptimizedRoute(routeId) called by the requester fails with
\* RouteNotProcessed until the route is processed and from then on returns
\* the stored ciphertext handles, the plaintext locationOrder and the
\* creation time; getRouteDataForOwner fails with NotAuthorized for every
\* caller but the owner and, for the owner, with RouteNotProcessed on an
\* unprocessed route, and otherwise returns the handles, the requester and
\* the creation time.  Neither changes the storage or emits an event.
C29_ResultGetters ==
    \A c \in Calls : \A f \in {Result(c)} :
        \A request \in {Request(Storage, c.routeId)} :
        \A route \in {Route(Storage, c.routeId)} :
            /\ c.op \in {"getOptimizedRoute", "getRouteDataForOwner"}
                => (f.st = Storage /\ f.ev = <<>>)
            /\ (c.op = "getOptimizedRoute" /\ c.sender = request.requester)
                => IF ~request.processed
                   THEN ErrorName(f.err) = "RouteNotProcessed"
                   ELSE /\ f.err = NoError
                        /\ f.ret = <<route.totalDistance.h, route.estimatedTime.h,
                                     route.locationOrder, route.createdAt>>
                        /\ route.totalDistance # NoCipher
                        /\ route.estimatedTime # NoCipher
            /\ c.op = "getRouteDataForOwner"
                => IF c.sender # owner THEN ErrorName(f.err) = "NotAuthorized"
                   ELSE IF ~request.processed
                        THEN ErrorName(f.err) = "RouteNotProcessed"
                   ELSE /\ f.err = NoError
                        /\ f.ret = <<route.totalDistance.h, route.estimatedTime.h,
                                     request.requester, route.createdAt>>

\* one requester with a processed route and an unprocessed one: the getter
\* returns the result of the first and fails with RouteNotProcessed for the
\* second, and the owner's getter answers the same way
C29_Witness ==
    \E c \in Calls : \E d \in Calls :
        /\ c.op = "getOptimizedRoute" /\ d.op = "getOptimizedRoute"
        /\ c.sender = Request(Storage, c.routeId).requester
        /\ d.sender = Request(Storage, d.routeId).requester
        /\ c.sender # owner
        /\ Result(c).err = NoError
        /\ Len(Result(c).ret[3]) = Request(Storage, c.routeId).locationCount
        /\ ErrorName(Result(d).err) = "RouteNotProcessed"
        /\ \E e \in Calls :
            /\ e.op = "getRouteDataForOwner"
            /\ e.sender = owner /\ e.routeId = c.routeId
            /\ Result(e).err = NoError
            /\ Result(e).ret[3] = c.sender

\* C30: once a RouteRequest is created its requester, locationCount and
\* timestamp never change and the record is never deleted.  Whatever call is
\* made next, only processRouteOptimization of that route changes its
\* request record (the processed flag and the back-reference) and creates its
\* result record, only finalizeRoute of that route changes the result record
\* after that (the finalized flag), and every other call --
\* markDeliveryCompleted, the role operations, any submission -- leaves both
\* records as they are.
C30_RequestRecordIsStable ==
    \A c \in Calls : \A f \in {Result(c)} :
        \A r \in 1..routeCounter :
        \A before \in {Request(Storage, r)} : \A after \in {Request(f.st, r)} :
            /\ r \in DOMAIN f.st.routeRequests
            /\ before.requester # NullAddress
            /\ after = [before EXCEPT !.processed = after.processed,
                                      !.optimizedRouteId = after.optimizedRouteId]
            /\ after # before
                => (c.op = "processRouteOptimization" /\ c.routeId = r)
            /\ Route(f.st, r) # Route(Storage, r)
                => /\ c.op \in {"processRouteOptimization", "finalizeRoute"}
                   /\ c.routeId = r
            /\ (c.op = "finalizeRoute" /\ f.err = NoError /\ c.routeId = r)
                => Route(f.st, r) = [Route(Storage, r) EXCEPT !.finalized = TRUE]

\* a route created in an earlier block: another identity's submission now
\* succeeds and leaves the route's request as it was, timestamp included
C30_Witness ==
    \E c \in Calls : \E r \in 1..routeCounter :
        /\ c.op = "requestRouteOptimization"
        /\ Result(c).err = NoError
        /\ c.sender # Request(Storage, r).requester
        /\ Request(Storage, r).timestamp # blockTime
        /\ Request(Result(c).st, r) = Request(Storage, r)
        /\ Request(Result(c).st, routeCounter + 1).requester = c.sender

\* C31: in every reachable state the stored RouteRequests are exactly those
\* with ids 1..routeCounter: every id in that range has a non-null requester,
\* id 0 and every id above routeCounter have none; and no call makes
\* routeCounter smaller.
C31_RequestsAreOneToCounter ==
    /\ DOMAIN routeRequests = 1..routeCounter
    /\ \A r \in 0..(MaxRoutes + 1) :
        (Request(Storage, r).requester # NullAddress) <=> (r \in 1..routeCounter)
    /\ \A r \in 0..(MaxRoutes + 1) :
        r \notin 1..routeCounter => Request(Storage, r) = ZeroRequest
    /\ \A c \in Calls : Result(c).st.routeCounter >= routeCounter

\* two routes submitted: ids 1 and 2 have requesters, 0 and 3 have none, and
\* a third submission would take id 3
C31_Witness ==
    /\ routeCounter = 2
    /\ Request(Storage, 1).requester # NullAddress
    /\ Request(Storage, 2).requester # NullAddress
    /\ Request(Storage, 0).requester = NullAddress
    /\ Request(Storage, 3).requester = NullAddress
    /\ \E c \in Calls :
        /\ c.op = "requestRouteOptimization"
        /\ Result(c).err = NoError
        /\ Result(c).st.routeCounter = 3

\* C32: in the just-deployed state the owner is the deployer, routeCounter is
\* 0 and nothing is stored; the contract with the pause has paused = false
\* and the deployer in its pauser set (the main contract declares neither).
\* Which contract is deployed never changes afterwards.
C32_JustDeployed ==
    /\ owner = Deployer
    /\ routeCounter = 0
    /\ Storage = [EmptyStorage EXCEPT !.owner = Deployer,
                    !.pausers = IF contract = "example" THEN {Deployer} ELSE {}]
    /\ contract = "example" => (paused = FALSE /\ Deployer \in pausers)
    /\ emitted = EmptyMap
    /\ [][contract' = contract]_vars

\* the example contract as deployed: the deployer owns it and may pause it
C32_Witness ==
    /\ contract = "example"
    /\ owner = Deployer /\ routeCounter = 0 /\ ~paused /\ pausers = {Deployer}
    /\ routeRequests = EmptyMap /\ emitted = EmptyMap /\ blockTime = 0

\* C33 (as stated): for a processed route with locations (x_0, y_0) ..
\* (x_{n-1}, y_{n-1}) the value under totalDistance is the sum over the
\* consecutive pairs i = 0..n-2 of |x_{i+1} - x_i| + |y_{i+1} - y_i|, in the
\* width of the ciphertext (0 when n = 1).
C33_TotalDistanceIsManhattanSum ==
    \A r \in 1..routeCounter :
        Request(Storage, r).processed
            => LET n == Request(Storage, r).locationCount
                   x(i) == Location(Storage, r, i).encryptedX.v
                   y(i) == Location(Storage, r, i).encryptedY.v
                   abs(d) == IF d < 0 THEN 0 - d ELSE d
                   sum[k \in 0..(n - 1)] ==
                       IF k = 0 THEN 0
                       ELSE sum[k - 1] + abs(x(k) - x(k - 1)) + abs(y(k) - y(k - 1))
               IN  Route(Storage, r).totalDistance.v = sum[n - 1] % Uint32Mod

\* C34: every route created can be processed.  For every existing
\* unprocessed route, one of a single location included, the owner's
\* processRouteOptimization while the contract is not paused succeeds and
\* sets processed; so, the owner's calls being scheduled fairly, if the
\* contract stays unpaused from some point on then every submitted route is
\* eventually processed.
C34_EveryRouteCanBeProcessed ==
    /\ [](\A c \in Calls : \A f \in {Result(c)} :
            ( /\ c.op = "processRouteOptimization"
              /\ c.sender = owner
              /\ ~paused
              /\ Request(Storage, c.routeId).requester # NullAddress
              /\ ~Request(Storage, c.routeId).processed )
                => /\ f.err = NoError
                   /\ Request(f.st, c.routeId).processed)
    /\ (<>[](~paused))
        => \A r \in 1..MaxRoutes :
            [](Request(Storage, r).requester # NullAddress
                => <>Request(Storage, r).processed)

\* a route of a single location, not yet processed, on a contract that is not
\* paused: the owner's call processes it
C34_Witness ==
    \E c \in Calls :
        /\ c.op = "processRouteOptimization"
        /\ c.sender = owner
        /\ ~paused
        /\ Request(Storage, c.routeId).locationCount = 1
        /\ ~Request(Storage, c.routeId).processed
        /\ Result(c).err = NoError
        /\ Request(Result(c).st, c.routeId).processed

\* C35: the contract can never be locked in the paused state.  In every
\* reachable state the owner is a non-null identity and the owner's
\* togglePause succeeds and flips the flag; and togglePause, addPauser,
\* removePauser and transferOwnership answer the same whether the contract
\* is paused or not, never with ContractPaused.
C35_NeverLockedPaused ==
    /\ owner # NullAddress
    /\ owner \in Users
    /\ contract = "example"
        => \A f \in {Invoke(contract, Storage,
                        [NoCall EXCEPT !.op = "togglePause", !.sender = owner],
                        blockTime)} :
            /\ f.err = NoError
            /\ f.st.paused = ~paused
    /\ \A c \in Calls :
        c.op \in {"togglePause", "addPauser", "removePauser", "transferOwnership"}
            => \A f \in {Invoke(contract, [Storage EXCEPT !.paused = TRUE], c, blockTime)} :
               \A g \in {Invoke(contract, [Storage EXCEPT !.paused = FALSE], c, blockTime)} :
                /\ f.err = g.err
                /\ f.err # "ContractPaused"
                /\ f.ev = g.ev \/ c.op = "togglePause"
                /\ f.st.owner = g.st.owner /\ f.st.pausers = g.st.pausers

\* a paused contract whose pauser set is empty: the owner can still unpause
\* it, and can still hand the ownership on
C35_Witness ==
    /\ paused
    /\ pausers = {}
    /\ \E c \in Calls : \E d \in Calls :
        /\ c.op = "togglePause" /\ c.sender = owner
        /\ Result(c).err = NoError
        /\ ~Result(c).st.paused
        /\ d.op = "transferOwnership" /\ d.sender = owner /\ d.account # owner
        /\ Result(d).err = NoError

\* C36: transferOwnership changes only the owner: the pauser set and the
\* paused flag stay as they are.  So a previous owner who is in the pauser
\* set can still toggle the pause after the transfer, and no longer once the
\* new owner's removePauser has removed them.
C36_TransferKeepsPauserRole ==
    \A c \in Calls : \A f \in {Result(c)} :
        (c.op = "transferOwnership" /\ f.err = NoError)
            => /\ f.st.pausers = pausers
               /\ f.st.paused = paused
               /\ f.st = [Storage EXCEPT !.owner = c.account]
               /\ \A t \in {[NoCall EXCEPT !.op = "togglePause", !.sender = c.sender]} :
                    /\ c.sender \in pausers
                        => Invoke(contract, f.st, t, blockTime).err = NoError
                    /\ (c.sender \in pausers /\ c.account # c.sender)
                        => \A g \in {Invoke(contract, f.st,
                                        [NoCall EXCEPT !.op = "removePauser",
                                                       !.sender = c.account,
                                                       !.account = c.sender],
                                        blockTime)} :
                            /\ g.err = NoError
                            /\ Invoke(contract, g.st, t, blockTime).err = "NotPauser"

\* after a transfer: the deployer is no longer the owner and still a pauser,
\* its togglePause succeeds, and fails once the new owner has removed it
C36_Witness ==
    /\ owner # Deployer
    /\ Deployer \in pausers
    /\ Count(emitted, <<"RouteRequested", 1>>) = 1
    /\ \A t \in {[NoCall EXCEPT !.op = "togglePause", !.sender = Deployer]} :
        /\ Invoke(contract, Storage, t, blockTime).err = NoError
        /\ \E c \in Calls :
            /\ c.op = "removePauser" /\ c.sender = owner /\ c.account = Deployer
            /\ Result(c).err = NoError
            /\ Invoke(contract, Result(c).st, t, blockTime).err = "NotPauser"

\* C37: when several failure conditions hold at once the error reported is
\* the first in a fixed order.  processRouteOptimization: NotAuthorized,
\* then ContractPaused, then RouteAlreadyProcessed, then InvalidRoute.
\* markDeliveryCompleted: NotYourRoute, then ContractPaused, then
\* RouteNotProcessed, then InvalidLocationIndex, then
\* LocationAlreadyCompleted.  In particular markDeliveryCompleted on a route
\* id never submitted fails with NotYourRoute for every caller.
C37_ErrorPrecedence ==
    \A c \in Calls : \A f \in {Result(c)} :
        \A request \in {Request(Storage, c.routeId)} :
            /\ c.op = "processRouteOptimization"
                => ErrorName(f.err) =
                    (IF c.sender # owner THEN "NotAuthorized"
                     ELSE IF paused THEN "ContractPaused"
                     ELSE IF request.processed THEN "RouteAlreadyProcessed"
                     ELSE IF request.requester = NullAddress THEN "InvalidRoute"
                     ELSE NoError)
            /\ c.op = "markDeliveryCompleted"
                => /\ ErrorName(f.err) =
                        (IF c.sender # request.requester THEN "NotYourRoute"
                         ELSE IF paused THEN "ContractPaused"
                         ELSE IF ~request.processed THEN "RouteNotProcessed"
                         ELSE IF c.locationIndex >= request.locationCount
                              THEN "InvalidLocationIndex"
                         ELSE IF ~Location(Storage, c.routeId, c.locationIndex).isActive
                              THEN "LocationAlreadyCompleted"
                         ELSE NoError)
                   /\ request.requester = NullAddress
                        => ErrorName(f.err) = "NotYourRoute"

\* a paused contract with a processed and an unprocessed route: a caller who
\* is not the owner gets NotAuthorized for the processed route, where
\* ContractPaused and RouteAlreadyProcessed hold too, and a caller who is not
\* the requester gets NotYourRoute for the unprocessed route with an index
\* out of range, where three other conditions hold too
C37_Witness ==
    /\ paused
    /\ \E c \in Calls :
        /\ c.op = "processRouteOptimization"
        /\ c.sender # owner
        /\ Request(Storage, c.routeId).processed
        /\ ErrorName(Result(c).err) = "NotAuthorized"
    /\ \E c \in Calls :
        /\ c.op = "markDeliveryCompleted"
        /\ Request(Storage, c.routeId).requester \notin {NullAddress, c.sender}
        /\ ~Request(Storage, c.routeId).processed
        /\ c.locationIndex >= Request(Storage, c.routeId).locationCount
        /\ ErrorName(Result(c).err) = "NotYourRoute"

\* C38: every location index of a stored route fits the 8-bit location
\* index.  A requestRouteOptimization with more than 255 locations never
\* succeeds: the 8-bit loop counter overflows and the call is aborted with no
\* change of state.  So every stored route has between 1 and 255 locations,
\* and the requester's markDeliveryCompleted on a processed route (contract
\* not paused) succeeds for every active location below locationCount.
C38_LocationIndexFitsUint8 ==
    /\ \A r \in 1..routeCounter :
        /\ Request(Storage, r).locationCount \in 1..MaxUint8
        /\ \A i \in 0..(Request(Storage, r).locationCount - 1) : i <= MaxUint8
    /\ \A c \in Calls : \A f \in {Result(c)} :
        /\ (c.op = "requestRouteOptimization" /\ Len(c.xCoords) > MaxUint8)
            => /\ f.err = "Panic(0x11)"
               /\ f.st = Storage
               /\ f.ev = <<>>
        /\ (c.op = "requestRouteOptimization" /\ f.err = NoError)
            => Request(f.st, f.ret[1]).locationCount \in 1..MaxUint8
        /\ ( /\ c.op = "markDeliveryCompleted"
             /\ c.sender = Request(Storage, c.routeId).requester
             /\ Request(Storage, c.routeId).processed
             /\ ~paused
             /\ c.locationIndex < Request(Storage, c.routeId).locationCount
             /\ Location(Storage, c.routeId, c.locationIndex).isActive )
            => (f.err = NoError /\ c.locationIndex <= MaxUint8)

\* with one route stored, a request of 256 locations is aborted and leaves
\* the counter where it was, and the last location of a processed route of
\* two can be completed
C38_Witness ==
    /\ routeCounter = 1
    /\ Request(Storage, 1).locationCount = 2
    /\ \E c \in Calls :
        /\ c.op = "requestRouteOptimization"
        /\ Len(c.xCoords) = MaxUint8 + 1
        /\ Result(c).err = "Panic(0x11)"
        /\ Result(c).st.routeCounter = 1
    /\ \E c \in Calls :
        /\ c.op = "markDeliveryCompleted"
        /\ c.routeId = 1 /\ c.locationIndex = 1
        /\ Result(c).err = NoError
====
